---- MODULE Spec2Model ----
(***************************************************************************)
(* A model of swappy's annotation editor (src/src/application.c,           *)
(* src/src/render.c, src/include/swappy.h): the paint lists, the pending   *)
(* paint, the backing image, the rendering surface and the viewport.       *)
(*                                                                         *)
(* Representation.  A gdouble coordinate is a fixed-point integer counting *)
(* 1/Sub of a pixel; zoom_level counts 1/ZoomOne.  A struct swappy_paint   *)
(* is a record carrying the identity of the allocation in its id field.    *)
(* A pixbuf is the rectangle of the loaded image it holds, in whole pixels.*)
(* paint.c is not part of the sources at hand: paint_add_temporary,        *)
(* paint_update_temporary_*, paint_commit_temporary, paint_free_all and    *)
(* paint_free_list are modelled from the specification (sections 3, 4.3).  *)
(*                                                                         *)
(* The upscaler (src/src/scale2x.c) is modelled beside it: a pixel buffer  *)
(* is the row-major sequence of its pixels, an int keeps its 32-bit range. *)
(***************************************************************************)
EXTENDS Integers, Sequences, FiniteSets, TLC

\* ------------------------------------------------------------------ bounds
\* Paint objects allocated at the same time (pending + committed + redo).
MaxLive == 3
\* Characters of a text paint.
MaxText == 1
\* Points of a freehand stroke.
MaxPoints == 2
\* Width and height of the image loaded at start, in pixels.
ImgW == 2
ImgH == 2
\* Zoom steps away from 1.0, in units of zoom_level.
MaxZoomDrift == 1
\* Distinct pixel values in the buffers handed to the upscaler.
MaxColours == 4
\* Width and height of the surfaces a viewport is extracted from.
MaxW == 2
MaxH == 2
\* How far a viewport request starts before or after the surface origin.
MaxOff == 2
MaxPan == 1
MaxTasks == 1
\* The surfaces that are pixelated: up to MaxBlurW x MaxBlurH device pixels.
MaxBlurW == 6
MaxBlurH == 2
\* Paints alive, and steps of a tool size away from its default, while the
\* viewport is zoomed.
MaxFramePaints == 1
MaxSizeDrift == 1

\* --------------------------------------------------------- representation
\* Units per pixel of a gdouble coordinate.
Sub == 2
\* zoom_level 1.0.
ZoomOne == 10
\* The preview scale multipliers are kept in tenths too: 1.0.
ScaleOne == 10
\* Above zoom 1.5 the drawing area is painted through scale2x_viewport.
Scale2xZoom == 15
\* state->scaling_factor when the image fits the work area.
ScalingFactor == 1

NULL == [null |-> TRUE]

\* int: the largest value of a viewport coordinate.
INT_MAX == 2147483647
\* The largest factor the drawing area asks of the upscaler.
MaxScale == 8
\* The scale arguments of scale_nx: 0 and 1 copy, 2, 4 and 8 upscale.
ScaleFactors == {0, 1, 2, 4, 8}
\* uint32_t pixel values (ARGB32): black and greys.
Colours == {c * 8421504 : c \in 0..(MaxColours - 1)}

\* enum swappy_paint_type: the modes the panel switches between.
PAN == "PAN"
BRUSH == "BRUSH"
TEXT == "TEXT"
RECTANGLE == "RECTANGLE"
BLUR == "BLUR"
CROP == "CROP"
Modes == {PAN, BRUSH, TEXT, RECTANGLE, BLUR, CROP}

\* Pointer positions on the drawing area (GdkEvent x, y), in units.
PressPositions == {<<0, 0>>}
DragPositions == {<<2, 2>>}

VARIABLES
    paints,                 \* state->paints: committed, most recent first
    redo_paints,            \* state->redo_paints: most recently undone first
    temp_paint,             \* state->temp_paint: the pending paint or NULL
    original_image,         \* state->original_image
    rendering_surface,      \* state->rendering_surface: what was last drawn
    upscaled_pixbuf_cache,  \* state->upscaled_pixbuf_cache, or NULL
    enhanced_surface,       \* state->enhanced_surface, or NULL
    enhanced_preset_cache,  \* state->enhanced_preset_cache
    upscaled_preview_surface,      \* state->upscaled_preview_surface, or NULL
    upscaled_preview_scale_x,      \* state->upscaled_preview_scale_x
    upscaled_preview_scale_y,      \* state->upscaled_preview_scale_y
    upscaled_preview_cache_valid,  \* state->upscaled_preview_cache_valid
    released,               \* the caches the last render_state released
    mode,                   \* state->mode
    crop_settings,          \* state->crop_settings: aspect_w, aspect_h
    settings,               \* state->settings: w (stroke), t (text), tr
    undo_sensitive,         \* the undo button is sensitive
    redo_sensitive,         \* the redo button is sensitive
    zoom_level,             \* state->zoom_level
    pan_x,                  \* state->pan_x
    pan_y,                  \* state->pan_y
    middle_button_pressed,  \* static middle_button_pressed
    pan_start_x,            \* static pan_start_x
    pan_start_y,            \* static pan_start_y
    src_surface,            \* the caller's pixel buffer or source surface
    caller_freed,           \* scale_nx has freed a buffer its caller passed
    scaled,                 \* the buffer scale_nx returned last, or NULL
    factors,                \* the scale arguments that led to it, in order
    requested,              \* the region scale2x_viewport was asked for
    sampled,                \* the region of the source it read, or NULL
    upscaled,               \* the surface it returned, or NULL
    upscale_command,        \* state->config->upscale_command
    upscale_tasks,          \* the GTasks of upscale requests not yet finished
    temp_files,             \* the temporary files that exist
    saved_pixbuf,           \* what pixbuf_get_from_state returned last
    alloc,                  \* the GtkAllocation of the drawing area
    drawn,                  \* what draw_area_handler painted last, or NULL
    blurred                 \* the last blur_surface call: arguments, result

model == <<paints, redo_paints, temp_paint>>
viewport == <<zoom_level, pan_x, pan_y>>
drag == <<middle_button_pressed, pan_start_x, pan_start_y>>
controls == <<undo_sensitive, redo_sensitive>>
previews == <<enhanced_surface, enhanced_preset_cache,
              upscaled_preview_surface, upscaled_preview_scale_x,
              upscaled_preview_scale_y, upscaled_preview_cache_valid,
              released>>
editor == <<paints, redo_paints, temp_paint, original_image,
            rendering_surface, upscaled_pixbuf_cache, previews, mode,
            crop_settings,
            settings, controls, zoom_level, pan_x, pan_y,
            middle_button_pressed,
            pan_start_x, pan_start_y>>
external == <<upscale_command, upscale_tasks, temp_files, saved_pixbuf>>
canvas == <<alloc, drawn, blurred>>
scaler == <<src_surface, caller_freed, scaled, factors, requested, sampled,
            upscaled, external, canvas>>
vars == <<editor, scaler>>

\* ---------------------------------------------------------------- helpers
Min(a, b) == IF a < b THEN a ELSE b
Max(a, b) == IF a > b THEN a ELSE b
Abs(a) == IF a < 0 THEN 0 - a ELSE a

\* gdouble arithmetic on the pan offsets, kept exact: a value is the
\* fraction num / den in lowest terms, den > 0, of a fixed-point unit.
RECURSIVE GCD(_, _)
GCD(a, b) == IF b = 0 THEN a ELSE GCD(b, a % b)
Frac(n, d) == LET g == GCD(Abs(n), d) IN [num |-> n \div g, den |-> d \div g]
Whole(i) == [num |-> i, den |-> 1]
FracMinus(a, b) == Frac(a.num * b.den - b.num * a.den, a.den * b.den)
FracTimes(a, n, d) == Frac(a.num * n, a.den * d)
FracFloor(a) == a.num \div a.den
FracPlus(a, b) == Frac(a.num * b.den + b.num * a.den, a.den * b.den)
FracMult(a, b) == Frac(a.num * b.num, a.den * b.den)
FracLess(a, b) == a.num * b.den < b.num * a.den
\* A cast to int: towards zero.
FracTrunc(a) ==
    IF a.num >= 0 THEN a.num \div a.den ELSE 0 - ((0 - a.num) \div a.den)
Range(s) == {s[i] : i \in 1..Len(s)}
Ids(s) == {s[i].id : i \in 1..Len(s)}

LiveIds(ps, rs, tp) == Ids(ps) \cup Ids(rs) \cup (IF tp = NULL THEN {} ELSE {tp.id})

\* g_new(struct swappy_paint, 1): an address no live paint has.
FreshId(live) == CHOOSE i \in 1..(Cardinality(live) + 1) : i \notin live

Reverse(s) == [i \in 1..Len(s) |-> s[Len(s) + 1 - i]]
CanDraw(p) == p.can_draw
Drawable(s) == SelectSeq(s, CanDraw)

\* The image loaded at start; a pixbuf is the rectangle of it that it holds.
LoadedImage == [x |-> 0, y |-> 0, w |-> ImgW, h |-> ImgH]

\* ------------------------------------------------------------------ paint
\* struct swappy_paint.  from/to/center are content.shape (and .text, .blur)
\* anchors, points is content.brush.points, text is the length of
\* content.text.text, tmode is content.text.mode, surface is
\* content.blur.surface (NULL, or what the pixelation was computed from),
\* blur_runs is the number of blur_surface calls made for the paint.
NoPoint == <<0, 0>>

NewPaint(id, type, p) ==
    [id |-> id, type |-> type, is_committed |-> FALSE,
     can_draw |-> (type = BRUSH),
     from |-> IF type = BRUSH THEN NoPoint ELSE p,
     to |-> IF type = BRUSH THEN NoPoint ELSE p,
     center |-> FALSE,
     points |-> IF type = BRUSH THEN <<p>> ELSE <<>>,
     text |-> 0, tmode |-> "EDIT", surface |-> NULL, blur_runs |-> 0]

\* paint_commit_temporary: the committed list after the pending paint was
\* committed (can_draw) or discarded (zero extent, empty text, no pending).
paint_commit_temporary(ps, tp) ==
    IF tp = NULL THEN ps
    ELSE LET p == IF tp.type = TEXT
                  THEN [tp EXCEPT !.can_draw = tp.can_draw /\ tp.text > 0,
                                  !.tmode = "DONE"]
                  ELSE tp
         IN IF p.can_draw
            THEN <<[p EXCEPT !.is_committed = TRUE]>> \o ps
            ELSE ps

\* paint_update_temporary_shape: pointer-move on the pending paint.
paint_update_temporary_shape(tp, p, ctrl) ==
    IF tp = NULL THEN NULL
    ELSE CASE tp.type = BRUSH ->
                [tp EXCEPT !.points = Append(tp.points, p)]
           [] tp.type \in {RECTANGLE, CROP} ->
                [tp EXCEPT !.to = p, !.center = ctrl,
                           !.can_draw = tp.can_draw \/ p # tp.from]
           [] tp.type = BLUR ->
                [tp EXCEPT !.to = p, !.can_draw = tp.can_draw \/ p # tp.from]
           [] OTHER -> tp

\* paint_update_temporary_text_clip: pointer-move on a pending text.
paint_update_temporary_text_clip(tp, p) ==
    IF tp # NULL /\ tp.type = TEXT
    THEN [tp EXCEPT !.to = p, !.can_draw = tp.can_draw \/ p # tp.from]
    ELSE tp

\* paint_update_temporary_text: a key on a pending text in edit mode.
paint_update_temporary_text(tp, key) ==
    IF tp = NULL \/ tp.type # TEXT \/ tp.tmode = "DONE" THEN tp
    ELSE CASE key = "char" -> [tp EXCEPT !.text = Min(MaxText, tp.text + 1)]
           [] key = "BackSpace" -> [tp EXCEPT !.text = Max(0, tp.text - 1)]
           [] key = "Escape" -> [tp EXCEPT !.tmode = "DONE"]
           [] OTHER -> tp
TextKeys == {"char", "BackSpace", "Escape"}

\* ----------------------------------------------------------------- render
\* The ids render_paints has drawn before it reaches ps[k]: the drawable
\* paints older than ps[k], oldest first.
DrawnBefore(ps, k) ==
    LET older == Drawable(Reverse(SubSeq(ps, k + 1, Len(ps))))
    IN [i \in 1..Len(older) |-> older[i].id]

\* blur_surface: the pixelation of the target as drawn so far.
blur_surface(under, img) == [img |-> img, under |-> under]

\* A render_blur that pixelates on every pass over a committed paint.
render_blur_every_pass(p, under, img) ==
    IF p.is_committed
    THEN [p EXCEPT !.surface = blur_surface(under, img),
                   !.blur_runs = p.blur_runs + 1]
    ELSE p

\* render_blur: a committed paint with no surface yet is pixelated and the
\* result kept on content.blur.surface; a committed paint with a surface is
\* blitted from it; a pending paint is drawn as a placeholder rectangle.
render_blur(p, under, img) ==
    IF p.is_committed
    THEN IF p.surface # NULL
         THEN p
         ELSE [p EXCEPT !.surface = blur_surface(under, img),
                        !.blur_runs = p.blur_runs + 1]
    ELSE p

\* render_paints, its effect on the committed paints.
render_paints(ps, img) ==
    [k \in 1..Len(ps) |->
        IF ps[k].can_draw /\ ps[k].type = BLUR
        THEN render_blur(ps[k], DrawnBefore(ps, k), img)
        ELSE ps[k]]

\* A render_paints that walks the committed list from its head: newest
\* first.
Painted_from_head(ps, tp, img) ==
    [img |-> img,
     layers |-> Drawable(render_paints(ps, img))
                \o (IF tp # NULL /\ tp.can_draw THEN <<tp>> ELSE <<>>)]

\* The surface after clear_surface, render_image, render_paints: the image,
\* then the drawable committed paints oldest first, then the pending paint.
Painted(ps, tp, img) ==
    [img |-> img,
     layers |-> Drawable(Reverse(render_paints(ps, img)))
                \o (IF tp # NULL /\ tp.can_draw THEN <<tp>> ELSE <<>>)]

\* What render_state destroys or unrefs: the caches that are there.
Released ==
    (IF enhanced_surface # NULL THEN <<"enhanced_surface">> ELSE <<>>)
    \o (IF upscaled_preview_surface # NULL
        THEN <<"upscaled_preview_surface">> ELSE <<>>)
    \o (IF upscaled_pixbuf_cache # NULL
        THEN <<"upscaled_pixbuf_cache">> ELSE <<>>)

\* A render_state without lines 585-588: the upscaled preview surface
\* survives the render.
render_state_keeping_preview(ps, tp, img) ==
    /\ paints' = render_paints(ps, img)
    /\ rendering_surface' = Painted(ps, tp, img)
    /\ released' = <<>>
    /\ enhanced_surface' = NULL
    /\ enhanced_preset_cache' = 0 - 1
    /\ upscaled_pixbuf_cache' = NULL
    /\ upscaled_preview_scale_x' = ScaleOne
    /\ upscaled_preview_scale_y' = ScaleOne
    /\ upscaled_preview_cache_valid' = FALSE
    /\ UNCHANGED upscaled_preview_surface

\* render_state(state), called with state->paints = ps, temp_paint = tp and
\* original_image = img.
render_state(ps, tp, img) ==
    /\ paints' = render_paints(ps, img)
    /\ rendering_surface' = Painted(ps, tp, img)
    /\ released' = Released
    /\ enhanced_surface' = NULL
    /\ enhanced_preset_cache' = 0 - 1
    /\ upscaled_preview_surface' = NULL
    /\ upscaled_pixbuf_cache' = NULL
    /\ upscaled_preview_scale_x' = ScaleOne
    /\ upscaled_preview_scale_y' = ScaleOne
    /\ upscaled_preview_cache_valid' = FALSE

\* ------------------------------------------------------------ annotations
\* update_ui_undo_redo: each button is sensitive when its list has a paint.
update_ui_undo_redo(ps, rs) ==
    /\ undo_sensitive' = (Len(ps) > 0)
    /\ redo_sensitive' = (Len(rs) > 0)

\* paint_add_temporary: a new pending paint of the active type anchored at
\* pt.  A pending paint already there leaves the slot first, committed
\* (commit_old) or discarded.  The result is <<committed list, pending>>.
paint_add_temporary(ps, rs, tp, pt, type, commit_old) ==
    LET kept == IF commit_old THEN paint_commit_temporary(ps, tp) ELSE ps
    IN <<kept, NewPaint(FreshId(LiveIds(kept, rs, NULL)), type, pt)>>

\* paint_free_all: committed, redo and pending are all released.
paint_free_all ==
    /\ redo_paints' = <<>>
    /\ temp_paint' = NULL

\* screen_coordinates_to_image_coordinates
Clamp(v, lo, hi) == IF v > hi THEN hi ELSE IF v < lo THEN lo ELSE v
\* Lines 490-491: (screen - pan) / (scaling_factor * zoom_level).
adjusted(screen, pan, zoom) ==
    FracTimes(FracMinus(Whole(screen), pan), ZoomOne, ScalingFactor * zoom)

screen_coordinates_to_image_coordinates(p) ==
    LET adjusted_x == adjusted(p[1], pan_x, zoom_level)
        adjusted_y == adjusted(p[2], pan_y, zoom_level)
    IN <<Clamp(FracFloor(adjusted_x), 0, original_image.w * Sub),
         Clamp(FracFloor(adjusted_y), 0, original_image.h * Sub)>>

\* commit_state without line 504: the redo list survives the commit.
commit_state_keeping_redo ==
    /\ temp_paint' = NULL
    /\ redo_paints' = redo_paints
    /\ render_state(paint_commit_temporary(paints, temp_paint), NULL,
                    original_image)
    /\ update_ui_undo_redo(paints', redo_paints')
    /\ UNCHANGED <<original_image, mode, crop_settings, settings, viewport,
                   drag>>

\* commit_state whose paint_commit_temporary leaves a paint it does not
\* commit in the pending slot.
commit_state_keeping_pending ==
    /\ temp_paint' = IF paint_commit_temporary(paints, temp_paint) = paints
                     THEN temp_paint ELSE NULL
    /\ redo_paints' = <<>>
    /\ render_state(paint_commit_temporary(paints, temp_paint), temp_paint',
                    original_image)
    /\ update_ui_undo_redo(paints', redo_paints')
    /\ UNCHANGED <<original_image, mode, crop_settings, settings, viewport,
                   drag>>

commit_state ==
    /\ temp_paint' = NULL
    /\ redo_paints' = <<>>
    /\ render_state(paint_commit_temporary(paints, temp_paint), NULL,
                    original_image)
    /\ update_ui_undo_redo(paints', redo_paints')
    /\ UNCHANGED <<original_image, mode, crop_settings, settings, viewport,
                   drag>>

\* The splices with g_list_append in place of g_list_prepend.
undo_lists_at_tail(ps, rs) ==
    IF ps # <<>> THEN <<Tail(ps), rs \o <<Head(ps)>>>> ELSE <<ps, rs>>
redo_lists_at_tail(ps, rs) ==
    IF rs # <<>> THEN <<ps \o <<Head(rs)>>, Tail(rs)>> ELSE <<ps, rs>>

\* action_undo, lines 216-220: the lists after the head of the committed
\* list was unlinked and prepended to the redo list.
undo_lists(ps, rs) ==
    IF ps # <<>> THEN <<Tail(ps), <<Head(ps)>> \o rs>> ELSE <<ps, rs>>

\* action_redo, lines 228-232: the inverse splice.
redo_lists(ps, rs) ==
    IF rs # <<>> THEN <<<<Head(rs)>> \o ps, Tail(rs)>> ELSE <<ps, rs>>

\* action_undo without line 219: the head stays linked in the committed
\* list.
action_undo_copying ==
    IF paints # <<>>
    THEN /\ redo_paints' = <<Head(paints)>> \o redo_paints
         /\ render_state(paints, temp_paint, original_image)
         /\ update_ui_undo_redo(paints', redo_paints')
         /\ UNCHANGED <<temp_paint, original_image, mode, crop_settings,
                        settings, viewport, drag>>
    ELSE UNCHANGED vars

action_undo ==
    IF paints # <<>>
    THEN LET spliced == undo_lists(paints, redo_paints)
         IN /\ redo_paints' = spliced[2]
            /\ render_state(spliced[1], temp_paint, original_image)
            /\ update_ui_undo_redo(paints', redo_paints')
            /\ UNCHANGED <<temp_paint, original_image, mode, crop_settings,
                           settings, viewport, drag>>
    ELSE UNCHANGED vars

\* action_redo with g_list_append: the paint returns to the tail of the
\* committed list.
action_redo_at_tail ==
    IF redo_paints # <<>>
    THEN LET spliced == redo_lists_at_tail(paints, redo_paints)
         IN /\ redo_paints' = spliced[2]
            /\ render_state(spliced[1], temp_paint, original_image)
            /\ update_ui_undo_redo(paints', redo_paints')
            /\ UNCHANGED <<temp_paint, original_image, mode, crop_settings,
                           settings, viewport, drag>>
    ELSE UNCHANGED vars

action_redo ==
    IF redo_paints # <<>>
    THEN LET spliced == redo_lists(paints, redo_paints)
         IN /\ redo_paints' = spliced[2]
            /\ render_state(spliced[1], temp_paint, original_image)
            /\ update_ui_undo_redo(paints', redo_paints')
            /\ UNCHANGED <<temp_paint, original_image, mode, crop_settings,
                           settings, viewport, drag>>
    ELSE UNCHANGED vars

\* action_clear whose release stops at the lists.
action_clear_keeping_pending ==
    /\ redo_paints' = <<>>
    /\ temp_paint' = temp_paint
    /\ render_state(<<>>, temp_paint, original_image)
    /\ update_ui_undo_redo(paints', redo_paints')
    /\ UNCHANGED <<original_image, mode, crop_settings, settings, viewport,
                   drag>>

action_clear ==
    /\ paint_free_all
    /\ render_state(<<>>, NULL, original_image)
    /\ update_ui_undo_redo(paints', redo_paints')
    /\ UNCHANGED <<original_image, mode, crop_settings, settings, viewport,
                   drag>>

\* save_clicked_handler, save_as_clicked_handler, copy_clicked_handler:
\* commit a potential paint, then export (the export changes no state).
save_clicked_handler == commit_state

\* brush_clicked_handler .. crop_clicked_handler, and the mode keys.
switch_mode_to(m) ==
    /\ mode' = m
    /\ UNCHANGED <<model, original_image, rendering_surface,
                   upscaled_pixbuf_cache, previews, crop_settings, settings,
                   controls, viewport, drag>>

\* ---------------------------------------------------------------- pointer
DrawingModes == {BLUR, BRUSH, RECTANGLE, TEXT, CROP}

\* draw_area_button_press_handler: button 2 starts a pan drag; button 1 in a
\* drawing mode adds the pending paint at the image position of the click.
draw_area_button_press_handler(button, p, commit_old) ==
    IF button = 2
    THEN /\ middle_button_pressed' = TRUE
         /\ pan_start_x' = FracMinus(Whole(p[1]), pan_x)
         /\ pan_start_y' = FracMinus(Whole(p[2]), pan_y)
         /\ UNCHANGED <<model, original_image, rendering_surface,
                        upscaled_pixbuf_cache, previews, mode, crop_settings,
                        settings, controls, viewport>>
    ELSE IF button = 1 /\ mode \in DrawingModes
    THEN LET added == paint_add_temporary(
                          paints, redo_paints, temp_paint,
                          screen_coordinates_to_image_coordinates(p), mode,
                          commit_old)
         IN /\ temp_paint' = added[2]
            /\ render_state(added[1], added[2], original_image)
            /\ update_ui_undo_redo(paints', redo_paints)
            /\ UNCHANGED <<redo_paints, original_image, mode, crop_settings,
                           settings, viewport, drag>>
    ELSE UNCHANGED vars

\* struct swappy_crop_settings as application_init leaves it, and as the
\* aspect combo box sets it (Free, 16:9, 4:3, 1:1).
FreeAspect == [aspect_w |-> 0, aspect_h |-> 0]
Aspects == <<FreeAspect, [aspect_w |-> 16, aspect_h |-> 9],
             [aspect_w |-> 4, aspect_h |-> 3],
             [aspect_w |-> 1, aspect_h |-> 1]>>

crop_aspect_changed_handler(active) ==
    /\ crop_settings' = Aspects[active + 1]
    /\ UNCHANGED <<model, original_image, rendering_surface,
                   upscaled_pixbuf_cache, previews, mode, settings, controls,
                   viewport, drag>>

\* Lines 1071-1097: the corner of the pending crop for a pointer at image
\* position pt, moved along one axis to the chosen aspect ratio.
crop_corner(from, pt) ==
    IF crop_settings.aspect_w > 0 /\ crop_settings.aspect_h > 0
    THEN LET dx == pt[1] - from[1]
             dy == pt[2] - from[2]
             by_width == (Abs(dx) * crop_settings.aspect_h)
                             \div crop_settings.aspect_w
             by_height == (Abs(dy) * crop_settings.aspect_w)
                              \div crop_settings.aspect_h
         IN IF Abs(dx) * crop_settings.aspect_h
                   > Abs(dy) * crop_settings.aspect_w
            THEN <<pt[1], IF dy < 0 THEN from[2] - by_width
                          ELSE IF dx >= 0 THEN from[2] + by_width
                          ELSE from[2] - by_width>>
            ELSE <<IF dx < 0 THEN from[1] - by_height
                   ELSE IF dy >= 0 THEN from[1] + by_height
                   ELSE from[1] - by_height, pt[2]>>
    ELSE pt

\* draw_area_motion_notify_handler with button 1 held (without it, and
\* outside a pan drag, the handler changes nothing).
draw_area_motion_notify_handler(p, ctrl) ==
    IF middle_button_pressed
    THEN /\ pan_x' = FracMinus(Whole(p[1]), pan_start_x)
         /\ pan_y' = FracMinus(Whole(p[2]), pan_start_y)
         /\ UNCHANGED <<model, original_image, rendering_surface,
                        upscaled_pixbuf_cache, previews, mode, crop_settings,
                        settings, controls, zoom_level, drag>>
    ELSE IF mode \in DrawingModes /\ (mode = CROP => temp_paint # NULL)
    THEN LET pt == screen_coordinates_to_image_coordinates(p)
             updated == IF mode = TEXT
                        THEN paint_update_temporary_text_clip(temp_paint, pt)
                        ELSE IF mode = CROP
                        THEN paint_update_temporary_shape(
                                 temp_paint, crop_corner(temp_paint.from, pt),
                                 ctrl)
                        ELSE paint_update_temporary_shape(temp_paint, pt, ctrl)
         IN /\ temp_paint' = updated
            /\ render_state(paints, updated, original_image)
            /\ UNCHANGED <<redo_paints, original_image, mode, crop_settings,
                           settings, controls, viewport, drag>>
    ELSE UNCHANGED vars

\* draw_area_button_release_handler: button 2 ends the pan drag; button 1
\* commits in the shape modes, keeps a crop pending, frees an undrawable
\* text.
draw_area_button_release_handler(button) ==
    IF button = 2
    THEN /\ middle_button_pressed' = FALSE
         /\ UNCHANGED <<model, original_image, rendering_surface,
                        upscaled_pixbuf_cache, previews, mode, crop_settings,
                        settings, controls, viewport, pan_start_x, pan_start_y>>
    ELSE IF button = 1 /\ mode \in {BLUR, BRUSH, RECTANGLE}
    THEN commit_state
    ELSE IF button = 1 /\ mode = TEXT
    THEN /\ temp_paint' = IF temp_paint # NULL /\ ~temp_paint.can_draw
                          THEN NULL ELSE temp_paint
         /\ UNCHANGED <<paints, redo_paints, original_image,
                        rendering_surface, upscaled_pixbuf_cache, previews,
                        mode, crop_settings, settings, controls, viewport,
                        drag>>
    ELSE UNCHANGED vars

\* window_keypress_handler while a paint is pending in text mode: the key
\* edits the text and the state is rendered.
window_keypress_handler_text(key) ==
    /\ temp_paint # NULL
    /\ mode = TEXT
    /\ temp_paint' = paint_update_temporary_text(temp_paint, key)
    /\ render_state(paints, temp_paint', original_image)
    /\ UNCHANGED <<redo_paints, original_image, mode, crop_settings, settings,
                   controls, viewport, drag>>

\* ------------------------------------------------------------------- crop
\* The rectangle a crop shape resolves to, corner- or centre-anchored
\* (action_apply_crop lines 96-110, render_crop_overlay draws the same), in
\* units: <<x, y, w, h>>.
ResolvedRectangle(shape) ==
    LET dx == Abs(shape.from[1] - shape.to[1])
        dy == Abs(shape.from[2] - shape.to[2])
    IN IF shape.center
       THEN <<shape.from[1] - dx, shape.from[2] - dy, dx * 2, dy * 2>>
       ELSE <<Min(shape.from[1], shape.to[1]), Min(shape.from[2], shape.to[2]),
              dx, dy>>

\* The crop rectangle after lines 112-119 have brought it within the image.
CropRectangle(shape, img) ==
    LET r == ResolvedRectangle(shape)
        x == IF r[1] < 0 THEN 0 ELSE r[1]
        y == IF r[2] < 0 THEN 0 ELSE r[2]
        w == IF x + r[3] > img.w * Sub THEN img.w * Sub - x ELSE r[3]
        h == IF y + r[4] > img.h * Sub THEN img.h * Sub - y ELSE r[4]
    IN <<x, y, w, h>>

\* (int) of a non-negative gdouble.
ToInt(v) == v \div Sub

\* gdk_pixbuf_new_subpixbuf(img, x, y, w, h) then gdk_pixbuf_copy: the
\* sub-rectangle, or NULL when the library refuses the arguments (an empty
\* or overhanging rectangle).  Allocation is taken to succeed.
gdk_pixbuf_new_subpixbuf(img, x, y, w, h) ==
    IF w > 0 /\ h > 0 /\ x >= 0 /\ y >= 0 /\ x + w <= img.w /\ y + h <= img.h
    THEN [x |-> img.x + x, y |-> img.y + y, w |-> w, h |-> h]
    ELSE NULL

\* Giving up with the viewport reset as well.
crop_aborted_resetting_view ==
    /\ temp_paint' = NULL
    /\ zoom_level' = ZoomOne
    /\ pan_x' = Whole(0)
    /\ pan_y' = Whole(0)
    /\ UNCHANGED <<paints, redo_paints, original_image, rendering_surface,
                   upscaled_pixbuf_cache, previews, mode, crop_settings,
                   settings, controls, drag>>

\* Giving up without freeing the pending paint.
crop_aborted_keeping_pending == UNCHANGED vars

\* action_apply_crop giving up (lines 121-126, 141-146): the pending paint
\* is freed and nothing else is touched, the surface included.
crop_aborted ==
    /\ temp_paint' = NULL
    /\ UNCHANGED <<paints, redo_paints, original_image, rendering_surface,
                   upscaled_pixbuf_cache, previews, mode, crop_settings,
                   settings, controls, viewport, drag>>

\* Going through without line 165: the redo list survives the crop.
crop_applied_keeping_redo(cropped) ==
    /\ original_image' = cropped
    /\ redo_paints' = redo_paints
    /\ temp_paint' = NULL
    /\ zoom_level' = ZoomOne
    /\ pan_x' = Whole(0)
    /\ pan_y' = Whole(0)
    /\ render_state(<<>>, NULL, cropped)
    /\ UNCHANGED <<mode, crop_settings, settings, controls, drag>>

\* action_apply_crop going through (lines 159-185): the image is replaced,
\* both lists and the pending paint are freed, the surfaces are rebuilt,
\* the viewport is reset and the state is rendered.
crop_applied(cropped) ==
    /\ original_image' = cropped
    /\ redo_paints' = <<>>
    /\ temp_paint' = NULL
    /\ zoom_level' = ZoomOne
    /\ pan_x' = Whole(0)
    /\ pan_y' = Whole(0)
    /\ render_state(<<>>, NULL, cropped)
    /\ UNCHANGED <<mode, crop_settings, settings, controls, drag>>

action_apply_crop ==
    IF temp_paint = NULL
    THEN UNCHANGED vars
    ELSE IF temp_paint.type # CROP \/ ~temp_paint.can_draw
    THEN UNCHANGED vars
    ELSE LET r == CropRectangle(temp_paint, original_image)
             cropped == gdk_pixbuf_new_subpixbuf(
                            original_image, ToInt(r[1]), ToInt(r[2]),
                            ToInt(r[3]), ToInt(r[4]))
         IN IF r[3] <= 0 \/ r[4] <= 0 \/ cropped = NULL
            THEN crop_aborted
            ELSE crop_applied(cropped)

\* crop_apply_clicked_handler, and the Return key of window_keypress_handler:
\* apply the crop in crop mode with a pending paint.
crop_apply_clicked_handler ==
    /\ mode = CROP
    /\ temp_paint # NULL
    /\ action_apply_crop

\* --------------------------------------------------------------- viewport
\* draw_area_scroll_handler without Shift: one zoom step of factor 1.1,
\* clamped to [0.1, 10.0], anchored at the pointer.
ZoomFactorNum == 11
ZoomFactorDen == 10
ZoomMax == 100
ZoomMin == 1

\* One zoom step that keeps whatever level the multiplication gives.
zoom_step_unclamped(direction, zoom) ==
    IF direction = "UP"
    THEN (zoom * ZoomFactorNum) \div ZoomFactorDen
    ELSE (zoom * ZoomFactorDen) \div ZoomFactorNum

\* Lines 1228-1233: the level after one step up or down from zoom.
zoom_step(direction, zoom) ==
    LET stepped == IF direction = "UP"
                   THEN (zoom * ZoomFactorNum) \div ZoomFactorDen
                   ELSE (zoom * ZoomFactorDen) \div ZoomFactorNum
    IN IF direction = "UP"
       THEN (IF stepped > ZoomMax THEN ZoomMax ELSE stepped)
       ELSE (IF stepped < ZoomMin THEN ZoomMin ELSE stepped)

\* A pan that follows the zoom factor of an unclamped step whatever the
\* level reached.
anchored_pan_by_factor(mouse, pan, zoom, old_zoom) ==
    IF zoom > old_zoom
    THEN FracMinus(Whole(mouse),
                   FracTimes(FracMinus(Whole(mouse), pan),
                             ZoomFactorNum, ZoomFactorDen))
    ELSE FracMinus(Whole(mouse),
                   FracTimes(FracMinus(Whole(mouse), pan),
                             ZoomFactorDen, ZoomFactorNum))

\* Lines 1239-1243: zoom_ratio = zoom_level / old_zoom and
\* pan = mouse - (mouse - pan) * zoom_ratio.
anchored_pan(mouse, pan, zoom, old_zoom) ==
    FracMinus(Whole(mouse),
              FracTimes(FracMinus(Whole(mouse), pan), zoom, old_zoom))

draw_area_scroll_handler(direction, p) ==
    LET zoom == zoom_step(direction, zoom_level)
    IN /\ zoom_level' = zoom
       /\ IF zoom # zoom_level
          THEN /\ pan_x' = anchored_pan(p[1], pan_x, zoom, zoom_level)
               /\ pan_y' = anchored_pan(p[2], pan_y, zoom, zoom_level)
          ELSE UNCHANGED <<pan_x, pan_y>>
       /\ UNCHANGED <<model, original_image, rendering_surface,
                      upscaled_pixbuf_cache, previews, mode, crop_settings,
                      settings, controls, drag>>

\* The tool sizes: include/swappy.h, and the defaults of the configuration.
SWAPPY_LINE_SIZE_MIN == 1
SWAPPY_LINE_SIZE_MAX == 50
SWAPPY_TEXT_SIZE_MIN == 10
SWAPPY_TEXT_SIZE_MAX == 50
line_size == 5
text_size == 20
transparency == 50
SWAPPY_TRANSPARENCY_MIN == 5
SWAPPY_TRANSPARENCY_MAX == 95

action_stroke_size_decrease(w) ==
    Max(SWAPPY_LINE_SIZE_MIN, w - (IF w <= 10 THEN 1 ELSE 5))
action_stroke_size_increase(w) ==
    Min(SWAPPY_LINE_SIZE_MAX, w + (IF w >= 10 THEN 5 ELSE 1))
action_text_size_decrease(t) ==
    Max(SWAPPY_TEXT_SIZE_MIN, t - (IF t <= 20 THEN 1 ELSE 5))
action_text_size_increase(t) ==
    Min(SWAPPY_TEXT_SIZE_MAX, t + (IF t >= 20 THEN 5 ELSE 1))

\* action_transparency_decrease without the test of line 390.
action_transparency_decrease_unclamped(tr) == ((tr - 10 + 5) \div 10) * 10

\* action_transparency_decrease: ten down, then the lower limit or the
\* nearest multiple of ten (int32_t arithmetic, far from its limits).
action_transparency_decrease(tr) ==
    IF tr - 10 < SWAPPY_TRANSPARENCY_MIN THEN SWAPPY_TRANSPARENCY_MIN
    ELSE ((tr - 10 + 5) \div 10) * 10

\* action_transparency_increase: ten up, then the upper limit or the
\* multiple of ten below.
action_transparency_increase(tr) ==
    IF tr + 10 > SWAPPY_TRANSPARENCY_MAX THEN SWAPPY_TRANSPARENCY_MAX
    ELSE ((tr + 10) \div 10) * 10

\* The size buttons: each handler calls its action and refreshes its
\* widget.
settings_changed(st) ==
    /\ settings' = st
    /\ UNCHANGED <<model, original_image, rendering_surface,
                   upscaled_pixbuf_cache, previews, mode, crop_settings,
                   controls, viewport, drag>>
stroke_size_decrease_handler ==
    settings_changed([settings EXCEPT
                         !.w = action_stroke_size_decrease(settings.w)])
stroke_size_increase_handler ==
    settings_changed([settings EXCEPT
                         !.w = action_stroke_size_increase(settings.w)])
text_size_decrease_handler ==
    settings_changed([settings EXCEPT
                         !.t = action_text_size_decrease(settings.t)])
text_size_increase_handler ==
    settings_changed([settings EXCEPT
                         !.t = action_text_size_increase(settings.t)])
transparency_decrease_handler ==
    settings_changed([settings EXCEPT
                         !.tr = action_transparency_decrease(settings.tr)])
transparency_increase_handler ==
    settings_changed([settings EXCEPT
                         !.tr = action_transparency_increase(settings.tr)])

\* draw_area_scroll_handler with Shift held resetting the viewport as the
\* reset keys do.
draw_area_scroll_handler_shift_resetting_view(direction) ==
    /\ settings' = IF mode = TEXT
                   THEN [settings EXCEPT !.t =
                            IF direction = "UP"
                            THEN action_text_size_increase(settings.t)
                            ELSE action_text_size_decrease(settings.t)]
                   ELSE [settings EXCEPT !.w =
                            IF direction = "UP"
                            THEN action_stroke_size_increase(settings.w)
                            ELSE action_stroke_size_decrease(settings.w)]
    /\ zoom_level' = ZoomOne
    /\ pan_x' = Whole(0)
    /\ pan_y' = Whole(0)
    /\ UNCHANGED <<model, original_image, rendering_surface,
                   upscaled_pixbuf_cache, previews, mode, crop_settings,
                   controls, drag>>

\* draw_area_scroll_handler with Shift held (lines 1185-1222): the text
\* size in text mode, the stroke size otherwise, takes one step; a pending
\* paint takes the new size (a paint's size is not part of its record
\* here) and the state is rendered.
draw_area_scroll_handler_shift(direction) ==
    /\ settings' = IF mode = TEXT
                   THEN [settings EXCEPT !.t =
                            IF direction = "UP"
                            THEN action_text_size_increase(settings.t)
                            ELSE action_text_size_decrease(settings.t)]
                   ELSE [settings EXCEPT !.w =
                            IF direction = "UP"
                            THEN action_stroke_size_increase(settings.w)
                            ELSE action_stroke_size_decrease(settings.w)]
    /\ IF temp_paint # NULL /\ (mode = TEXT => temp_paint.type = TEXT)
       THEN /\ render_state(paints, temp_paint, original_image)
            /\ UNCHANGED <<redo_paints, temp_paint, original_image, mode,
                           crop_settings, controls, viewport, drag>>
       ELSE UNCHANGED <<model, original_image, rendering_surface,
                        upscaled_pixbuf_cache, previews, mode, crop_settings,
                        controls, viewport, drag>>

\* window_keypress_handler, keys 0 and 1 (not while a text is pending in
\* text mode, when every key goes to the text).
window_keypress_handler_zoom_reset ==
    /\ ~(temp_paint # NULL /\ mode = TEXT)
    /\ zoom_level' = ZoomOne
    /\ pan_x' = Whole(0)
    /\ pan_y' = Whole(0)
    /\ UNCHANGED <<model, original_image, rendering_surface,
                   upscaled_pixbuf_cache, previews, mode, crop_settings,
                   settings, controls, drag>>

\* window_keypress_handler for a key pressed without Ctrl.  While a text is
\* pending in text mode the key goes to the text; otherwise 0 and 1 reset
\* the viewport, x clears the paints, and a key without a case (Space and k
\* among them) falls to the default and changes nothing.
Keys == {"0", "1", "space", "x", "k"}

window_keypress_handler(key) ==
    IF temp_paint # NULL /\ mode = TEXT
    THEN window_keypress_handler_text("char")
    ELSE IF key \in {"0", "1"}
    THEN window_keypress_handler_zoom_reset
    ELSE IF key = "x"
    THEN action_clear
    ELSE UNCHANGED editor

\* --------------------------------------------------------------- upscaler
\* src/src/scale2x.c.  A pixel buffer is the row-major sequence of its
\* uint32_t pixels: the C element src[i] is element i + 1 here.
pixels_equal(a, b) == a = b

\* A neighbour sample that reads outside the buffer as black.
SampleOrBlack(src, inside, i, P) == IF inside THEN src[i + 1] ELSE 0

\* A neighbour sample of scale2x, clamped at the edges: the pixel at index i
\* when it is inside the buffer, the centre pixel P otherwise.
Sample(src, inside, i, P) == IF inside THEN src[i + 1] ELSE P

\* The EPX rules with the right neighbour always replicated to the right.
scale2x_block_smearing(P, A, B, C, D) ==
    <<P, B, P, P>>

\* The EPX rules with the top-left one not comparing A with B.
scale2x_block_loose(P, A, B, C, D) ==
    LET ca == pixels_equal(C, A)
        ab == pixels_equal(A, B)
        bd == pixels_equal(B, D)
        dc == pixels_equal(D, C)
        cd == pixels_equal(C, D)
        ac == pixels_equal(A, C)
        ba == pixels_equal(B, A)
        db == pixels_equal(D, B)
    IN <<IF ca /\ ~cd THEN A ELSE P,
         IF ab /\ ~ac /\ ~bd THEN B ELSE P,
         IF dc /\ ~db /\ ~ac THEN C ELSE P,
         IF bd /\ ~ba /\ ~dc THEN D ELSE P>>

\* The EPX rules with the second pixel not looking at C.
scale2x_block_lopsided(P, A, B, C, D) ==
    LET ca == pixels_equal(C, A)
        ab == pixels_equal(A, B)
        bd == pixels_equal(B, D)
        dc == pixels_equal(D, C)
        cd == pixels_equal(C, D)
        ac == pixels_equal(A, C)
        ba == pixels_equal(B, A)
        db == pixels_equal(D, B)
    IN <<IF ca /\ ~cd /\ ~ab THEN A ELSE P,
         IF ab /\ ~bd THEN B ELSE P,
         IF dc /\ ~db /\ ~ac THEN C ELSE P,
         IF bd /\ ~ba /\ ~dc THEN D ELSE P>>

\* The EPX rules of scale2x: the four pixels written for the source pixel P
\* with neighbours A (up), B (right), C (left), D (down), in the order
\* dst[dy][dx], dst[dy][dx+1], dst[dy+1][dx], dst[dy+1][dx+1].
scale2x_block(P, A, B, C, D) ==
    LET ca == pixels_equal(C, A)
        ab == pixels_equal(A, B)
        bd == pixels_equal(B, D)
        dc == pixels_equal(D, C)
        cd == pixels_equal(C, D)
        ac == pixels_equal(A, C)
        ba == pixels_equal(B, A)
        db == pixels_equal(D, B)
    IN <<IF ca /\ ~cd /\ ~ab THEN A ELSE P,
         IF ab /\ ~ac /\ ~bd THEN B ELSE P,
         IF dc /\ ~db /\ ~ac THEN C ELSE P,
         IF bd /\ ~ba /\ ~dc THEN D ELSE P>>

\* scale2x(src, dst, w, h): the contents of dst, 2w pixels wide and 2h high,
\* after the two loops.
scale2x(src, w, h) ==
    LET dw == w * 2
    IN <<>> \o [i \in 1..(dw * h * 2) |->
           LET x == ((i - 1) % dw) \div 2
               y == ((i - 1) \div dw) \div 2
               P == src[y * w + x + 1]
               A == Sample(src, y > 0, (y - 1) * w + x, P)
               B == Sample(src, x < w - 1, y * w + x + 1, P)
               C == Sample(src, x > 0, y * w + x - 1, P)
               D == Sample(src, y < h - 1, (y + 1) * w + x, P)
           IN scale2x_block(P, A, B, C, D)
                  [(((i - 1) \div dw) % 2) * 2 + ((i - 1) % 2) + 1]]

\* The while loop of scale_nx: 2x passes while scale >= 2.  current is the
\* caller's buffer (is_src) or the output of the pass before; freed tells
\* whether free() was called on the caller's buffer.
RECURSIVE scale_nx_passes(_, _, _, _, _, _, _)
scale_nx_passes(current, cur_w, cur_h, scale, owns_current, is_src, freed) ==
    IF scale >= 2
    THEN scale_nx_passes(scale2x(current, cur_w, cur_h), cur_w * 2, cur_h * 2,
                         scale \div 2, TRUE, FALSE,
                         freed \/ (owns_current /\ is_src))
    ELSE [buf |-> current, out_w |-> cur_w, out_h |-> cur_h,
          src_freed |-> freed]

\* A scale_nx whose loop stops one pass early.
scale_nx_one_pass_short(src, w, h, scale) ==
    IF scale < 2
    THEN [buf |-> [i \in 1..(w * h) |-> src[i]], out_w |-> w, out_h |-> h,
          src_freed |-> FALSE]
    ELSE scale_nx_passes(src, w, h, scale \div 2, FALSE, TRUE, FALSE)

\* A scale_nx that takes the caller's buffer for its own.
scale_nx_owning_source(src, w, h, scale) ==
    IF scale < 2
    THEN [buf |-> [i \in 1..(w * h) |-> src[i]], out_w |-> w, out_h |-> h,
          src_freed |-> FALSE]
    ELSE scale_nx_passes(src, w, h, scale, TRUE, TRUE, FALSE)

\* scale_nx(src, w, h, scale, &out_w, &out_h): the buffer returned, the
\* sizes reported and whether the caller's buffer was freed.
scale_nx(src, w, h, scale) ==
    IF scale < 2
    THEN [buf |-> [i \in 1..(w * h) |-> src[i]], out_w |-> w, out_h |-> h,
          src_freed |-> FALSE]
    ELSE scale_nx_passes(src, w, h, scale, FALSE, TRUE, FALSE)

\* scale2x called on the caller's buffer, dst being 2w x 2h pixels.
scale2x_call ==
    /\ scaled = NULL
    /\ scaled' = [w |-> src_surface.w * 2, h |-> src_surface.h * 2,
                  px |-> scale2x(src_surface.px, src_surface.w,
                                 src_surface.h)]
    /\ factors' = <<2>>
    /\ UNCHANGED <<editor, external, src_surface, caller_freed, requested,
                   sampled, upscaled, canvas>>

\* scale_nx called on the caller's buffer.
scale_nx_call(scale) ==
    /\ scaled = NULL
    /\ LET r == scale_nx(src_surface.px, src_surface.w, src_surface.h, scale)
       IN /\ scaled' = [w |-> r.out_w, h |-> r.out_h, px |-> r.buf]
          /\ factors' = <<scale>>
          /\ caller_freed' = (caller_freed \/ r.src_freed)
          /\ UNCHANGED <<editor, external, src_surface, requested, sampled,
                         upscaled, canvas>>

\* scale_nx called on the buffer the call before returned.
scale_nx_again(scale) ==
    /\ scaled # NULL
    /\ factors[1] >= 2
    /\ scaled.w * scale <= src_surface.w * MaxScale
    /\ LET r == scale_nx(scaled.px, scaled.w, scaled.h, scale)
       IN /\ scaled' = [w |-> r.out_w, h |-> r.out_h, px |-> r.buf]
          /\ factors' = Append(factors, scale)
          /\ caller_freed' = (caller_freed \/ r.src_freed)
          /\ UNCHANGED <<editor, external, src_surface, requested, sampled,
                         upscaled, canvas>>

\* viewport_x + viewport_w > src_w, as an int comparison: the sum of a
\* clamped origin (>= 0) and an extent overflows when it passes INT_MAX,
\* and the comparison then has whatever outcome the build gives it.
FarEdgePassed(origin, extent, size) ==
    IF extent > 0 /\ origin > INT_MAX - extent
    THEN BOOLEAN
    ELSE {origin + extent > size}

\* The result of a call whose reads left the source buffer.
Undefined == [undefined |-> TRUE]

\* A region copy that starts at the surface origin whatever x and y are.
region_from_origin(x, y, w, h) ==
    [i \in 1..(w * h) |->
        src_surface.px[((i - 1) \div w) * src_surface.w + ((i - 1) % w) + 1]]

\* The tightly packed copy of the w x h pixels at (x, y) of the surface:
\* region[y' * viewport_w + x'] = src_row[viewport_x + x'].
region_of(x, y, w, h) ==
    [i \in 1..(w * h) |->
        src_surface.px[(y + ((i - 1) \div w)) * src_surface.w
                       + x + ((i - 1) % w) + 1]]

\* The allocations of a scale2x_viewport call: the region buffer (line
\* 254), a buffer of scale_nx (lines 147 and 163) and the output surface
\* (lines 268-270); failed names the one that returns NULL, or "none".
Allocations == {"none", "region", "next", "dst"}

\* What a write through a null pointer leaves: the process killed, or
\* whatever result the build gives.
Crashed == [crashed |-> TRUE]
ThroughNull == {Crashed, Undefined}

\* scale2x_viewport(src_surface, viewport_x, viewport_y, viewport_w,
\* viewport_h, scale).  No allocation result is tested: the region loop,
\* scale2x or memcpy in scale_nx, and the row memcpy into the surface write
\* through the pointer they were given.
scale2x_viewport(viewport_x, viewport_y, viewport_w, viewport_h, scale, failed) ==
    LET x == IF viewport_x < 0 THEN 0 ELSE viewport_x
        y == IF viewport_y < 0 THEN 0 ELSE viewport_y
    IN /\ requested = NULL
       /\ \E past_x \in FarEdgePassed(x, viewport_w, src_surface.w),
          past_y \in FarEdgePassed(y, viewport_h, src_surface.h) :
          LET w == IF past_x THEN src_surface.w - x ELSE viewport_w
              h == IF past_y THEN src_surface.h - y ELSE viewport_h
              inside == w <= src_surface.w - x /\ h <= src_surface.h - y
              s == scale_nx(region_of(x, y, w, h), w, h, scale)
          IN /\ requested' = [x |-> viewport_x, y |-> viewport_y,
                              w |-> viewport_w, h |-> viewport_h,
                              scale |-> scale, failed |-> failed]
             /\ IF w <= 0 \/ h <= 0
                THEN sampled' = NULL /\ upscaled' = NULL
                ELSE /\ sampled' = [x |-> x, y |-> y, w |-> w, h |-> h]
                     /\ IF failed # "none"
                        THEN upscaled' \in ThroughNull
                        ELSE upscaled' = IF inside
                                         THEN [w |-> s.out_w, h |-> s.out_h,
                                               px |-> s.buf]
                                         ELSE Undefined
             /\ UNCHANGED <<editor, external, src_surface, scaled, factors,
                            caller_freed, canvas>>

\* No upscaler call was made.
Scale2xIdle ==
    /\ scaled = NULL
    /\ factors = <<>>
    /\ caller_freed = FALSE
    /\ requested = NULL
    /\ sampled = NULL
    /\ upscaled = NULL

\* No upscale request was made yet and nothing was exported.
ExternalIdle ==
    /\ upscale_tasks = {}
    /\ temp_files = {}
    /\ saved_pixbuf = NULL

\* The drawing area has the size of the loaded image and no frame was
\* drawn yet.
CanvasIdle ==
    /\ alloc = [width |-> ImgW, height |-> ImgH]
    /\ drawn = NULL
    /\ blurred = NULL

ScalerIdle ==
    /\ Scale2xIdle
    /\ ExternalIdle
    /\ CanvasIdle
    /\ upscale_command = "unset"

\* ------------------------------------------------------- external upscale
\* src/src/pixbuf.c.  A pixbuf is known by the rendering surface it was made
\* from and by whether the upscale command has processed it; a temporary
\* file by the invocation that made it (a task id, or 0 for the synchronous
\* call) and its role.
Pixbuf(surface) == [of |-> surface, upscaled |-> FALSE]
UpscaledPixbuf(pixbuf) == [of |-> pixbuf.of, upscaled |-> TRUE]
TempFile(by, role) == [by |-> by, role |-> role]

\* What can become of a started command: the task cancelled before the
\* spawn, g_spawn_command_line_sync failing, a non-zero exit status, no
\* output file, an output file gdk_pixbuf_new_from_file cannot read, success.
Outcomes == {"cancelled", "spawn_failed", "non_zero", "no_output",
             "unreadable", "success"}

\* Lines 78-87: only a template with both placeholders is run.
Runnable == upscale_command = "both_tokens"

\* pixbuf_apply_upscale_command: <<the pixbuf returned or NULL, the
\* temporary files of the call that are left when it returns>>.  in_ok and
\* out_ok say whether g_mkstemp made the input and the output file.
pixbuf_apply_upscale_command(pixbuf, in_ok, out_ok, outcome) ==
    IF ~Runnable THEN <<NULL, {}>>
    ELSE LET created == (IF in_ok THEN {TempFile(0, "in")} ELSE {})
                            \cup (IF out_ok THEN {TempFile(0, "out")} ELSE {})
             unlinked == {TempFile(0, "in"), TempFile(0, "out")}
         IN <<IF in_ok /\ out_ok /\ outcome = "success"
              THEN UpscaledPixbuf(pixbuf) ELSE NULL,
              created \ unlinked>>

\* pixbuf_apply_upscale_command_async for the task id: without a runnable
\* template or without both temporary files the task returns NULL at once
\* and carries no task data; otherwise it runs the command in a thread.
pixbuf_apply_upscale_command_async(id, pixbuf, in_ok, out_ok) ==
    LET created == (IF in_ok THEN {TempFile(id, "in")} ELSE {})
                       \cup (IF out_ok THEN {TempFile(id, "out")} ELSE {})
    IN /\ id \notin {t.id : t \in upscale_tasks}
       /\ IF ~Runnable
          THEN /\ upscale_tasks' = upscale_tasks \cup
                      {[id |-> id, pixbuf |-> pixbuf, data |-> FALSE,
                        stage |-> "returned", result |-> NULL]}
               /\ UNCHANGED temp_files
          ELSE IF ~in_ok \/ ~out_ok
          THEN /\ upscale_tasks' = upscale_tasks \cup
                      {[id |-> id, pixbuf |-> pixbuf, data |-> FALSE,
                        stage |-> "returned", result |-> NULL]}
               /\ temp_files' = temp_files \cup created
          ELSE /\ upscale_tasks' = upscale_tasks \cup
                      {[id |-> id, pixbuf |-> pixbuf, data |-> TRUE,
                        stage |-> "running", result |-> NULL]}
               /\ temp_files' = temp_files \cup created
       /\ UNCHANGED <<editor, upscale_command, saved_pixbuf, src_surface,
                      caller_freed, scaled, factors, requested, sampled,
                      upscaled, canvas>>

\* upscale_thread_func: the task returns an error or the pixbuf read from
\* the output file.
upscale_thread_func(task, outcome) ==
    /\ task.stage = "running"
    /\ upscale_tasks' = (upscale_tasks \ {task}) \cup
           {[task EXCEPT !.stage = "returned",
                         !.result = IF outcome = "success"
                                    THEN UpscaledPixbuf(task.pixbuf)
                                    ELSE NULL]}
    /\ UNCHANGED <<editor, upscale_command, temp_files, saved_pixbuf,
                   src_surface, caller_freed, scaled, factors, requested,
                   sampled, upscaled, canvas>>

\* upscale_task_data_free: the files left when the task data of task are
\* freed.
upscale_task_data_free(task) ==
    IF task.data
    THEN temp_files \ {TempFile(task.id, "in"), TempFile(task.id, "out")}
    ELSE temp_files

\* The completion of a task in the main loop: the callback of the request
\* puts a result into the cache slot, then the task is finalised and its
\* task data are freed.
upscale_ready_callback(task) ==
    /\ task.stage = "returned"
    /\ upscaled_pixbuf_cache' = IF task.result # NULL THEN task.result
                                ELSE upscaled_pixbuf_cache
    /\ upscale_tasks' = upscale_tasks \ {task}
    /\ temp_files' = upscale_task_data_free(task)
    /\ UNCHANGED <<model, original_image, rendering_surface, previews, mode,
                   crop_settings, settings, controls, viewport, drag,
                   upscale_command, saved_pixbuf, src_surface, caller_freed,
                   scaled, factors, requested, sampled, upscaled, canvas>>

\* The preview caches of struct swappy_state are filled outside src/: an
\* enhanced preview of the rendering surface built with a preset, and an
\* upscaled preview of it with its width and height multipliers.
EnhancePresets == {1, 4}
PreviewScale == 2 * ScaleOne

enhanced_preview_built(preset) ==
    /\ enhanced_surface' = [of |-> rendering_surface, preset |-> preset]
    /\ enhanced_preset_cache' = preset
    /\ UNCHANGED <<model, original_image, rendering_surface,
                   upscaled_pixbuf_cache, upscaled_preview_surface,
                   upscaled_preview_scale_x, upscaled_preview_scale_y,
                   upscaled_preview_cache_valid, released, mode,
                   crop_settings, settings, controls, viewport, drag, scaler>>

upscaled_preview_built(built) ==
    /\ upscaled_preview_surface' = IF built THEN Pixbuf(rendering_surface)
                                   ELSE NULL
    /\ upscaled_preview_scale_x' = IF built THEN PreviewScale ELSE ScaleOne
    /\ upscaled_preview_scale_y' = IF built THEN PreviewScale ELSE ScaleOne
    /\ upscaled_preview_cache_valid' = TRUE
    /\ UNCHANGED <<model, original_image, rendering_surface,
                   upscaled_pixbuf_cache, enhanced_surface,
                   enhanced_preset_cache, released, mode, crop_settings,
                   settings, controls, viewport, drag, scaler>>

\* The request for an upscaled preview of the current rendering surface.
upscale_request(id, in_ok, out_ok) ==
    pixbuf_apply_upscale_command_async(id, Pixbuf(rendering_surface), in_ok,
                                       out_ok)

\* pixbuf_get_from_state, as save_state_to_file_or_folder calls it for
\* Ctrl+S: the cached pixbuf if there is one, else the pixbuf of the
\* rendering surface put through the command, else that pixbuf itself.
pixbuf_get_from_state(in_ok, out_ok, outcome) ==
    LET pixbuf == Pixbuf(rendering_surface)
        sync == pixbuf_apply_upscale_command(pixbuf, in_ok, out_ok, outcome)
    IN /\ IF upscaled_pixbuf_cache # NULL
          THEN /\ saved_pixbuf' = [pixbuf |-> upscaled_pixbuf_cache,
                                   surface |-> rendering_surface]
               /\ UNCHANGED temp_files
          ELSE /\ saved_pixbuf' = [pixbuf |-> IF sync[1] # NULL THEN sync[1]
                                              ELSE pixbuf,
                                   surface |-> rendering_surface]
               /\ temp_files' = temp_files \cup sync[2]
       /\ UNCHANGED <<editor, upscale_command, upscale_tasks, src_surface,
                      caller_freed, scaled, factors, requested, sampled,
                      upscaled, canvas>>

\* ------------------------------------------------------------- pixelation
\* render.c, blur_surface on pixels.  A surface is its format, its size in
\* device pixels, its device scale and its pixels in row-major order; a
\* pixel is <<A, R, G, B>>, the four bytes of the uint32_t.
block_size == 12
MinBlock == 4
Supported == {"RGB24", "ARGB32"}

PixelAt(surface, col, row) == surface.px[row * surface.w + col + 1]

RECURSIVE SumChannel(_, _, _, _, _, _)
\* The sum of channel ch over rows bi..block_end_y - 1 and columns
\* j..block_end_x - 1, row by row.
SumChannel(surface, ch, j, bi, block_end_x, block_end_y) ==
    IF bi >= block_end_y THEN 0
    ELSE LET RECURSIVE Row(_)
             Row(bj) == IF bj >= block_end_x THEN 0
                        ELSE PixelAt(surface, bj, bi)[ch] + Row(bj + 1)
         IN Row(j) + SumChannel(surface, ch, j, bi + 1, block_end_x,
                                block_end_y)

\* Lines 63-69: the region and the block side in device pixels.
BlurRegion(surface, x, y, width, height) ==
    [start_x |-> Clamp(FracTrunc(FracMult(x, surface.scale_x)), 0, surface.w),
     start_y |-> Clamp(FracTrunc(FracMult(y, surface.scale_y)), 0, surface.h),
     end_x |-> Clamp(FracTrunc(FracMult(FracPlus(x, width), surface.scale_x)),
                     0, surface.w),
     end_y |-> Clamp(FracTrunc(FracMult(FracPlus(y, height),
                                        surface.scale_y)),
                     0, surface.h),
     scaled_block |->
         Max(MinBlock,
             FracTrunc(FracMult(Whole(block_size), surface.scale_x)))]

\* Lines 72-106 for one pixel of dest: inside the region it takes the
\* average of the block it lies in, the block ending at block_limit_x and
\* block_limit_y at the latest; outside it keeps the copy of the source.
BlurredPixel(surface, region, block_limit_x, block_limit_y, col, row) ==
    IF /\ region.start_x <= col /\ col < region.end_x
       /\ region.start_y <= row /\ row < region.end_y
    THEN LET blk == region.scaled_block
             j == region.start_x + ((col - region.start_x) \div blk) * blk
             i == region.start_y + ((row - region.start_y) \div blk) * blk
             block_end_x == Min(j + blk, block_limit_x)
             block_end_y == Min(i + blk, block_limit_y)
             count == (block_end_x - j) * (block_end_y - i)
         IN [ch \in 1..4 |->
                SumChannel(surface, ch, j, i, block_end_x, block_end_y)
                    \div count]
    ELSE PixelAt(surface, col, row)

\* A blur_surface whose blocks end at the edge of the surface, not of the
\* region.
blur_surface_pixels_to_edge(surface, x, y, width, height) ==
    IF surface.format \notin Supported THEN NULL
    ELSE LET region == BlurRegion(surface, x, y, width, height)
         IN [dest |-> [surface EXCEPT !.px =
                          <<>> \o [k \in 1..(surface.w * surface.h) |->
                              BlurredPixel(surface, region, surface.w,
                                           surface.h,
                                           (k - 1) % surface.w,
                                           (k - 1) \div surface.w)]],
             final_w |-> FracTrunc(FracMult(width, surface.scale_x)),
             final_h |-> FracTrunc(FracMult(height, surface.scale_y)),
             at |-> <<x, y>>]

\* blur_surface(surface, x, y, width, height): NULL for a format other than
\* RGB24 and ARGB32; else dest, the copy of the surface with the blocks of
\* the region averaged, of which the rectangle at (x, y) of
\* (int)(width * scale_x) by (int)(height * scale_y) pixels is returned.
blur_surface_pixels(surface, x, y, width, height) ==
    IF surface.format \notin Supported THEN NULL
    ELSE LET region == BlurRegion(surface, x, y, width, height)
         IN [dest |-> [surface EXCEPT !.px =
                          <<>> \o [k \in 1..(surface.w * surface.h) |->
                              BlurredPixel(surface, region, region.end_x,
                                           region.end_y,
                                           (k - 1) % surface.w,
                                           (k - 1) \div surface.w)]],
             final_w |-> FracTrunc(FracMult(width, surface.scale_x)),
             final_h |-> FracTrunc(FracMult(height, surface.scale_y)),
             at |-> <<x, y>>]

\* One call of blur_surface on the surface at hand.
blur_surface_call(x, y, width, height) ==
    /\ blurred = NULL
    /\ blurred' = [x |-> x, y |-> y, width |-> width, height |-> height,
                   result |-> blur_surface_pixels(src_surface, x, y, width,
                                                  height)]
    /\ UNCHANGED <<editor, src_surface, caller_freed, scaled, factors,
                   requested, sampled, upscaled, external, alloc, drawn>>

\* ---------------------------------------------------------------- drawing
\* compute_window_size_and_scaling_factor: the size requested for the
\* drawing area, for an image img on a monitor whose work area is workarea.
\* The window may take three quarters of the work area; a larger image is
\* scaled down by one factor and both sides are cast to int.
compute_window_size_and_scaling_factor(img, workarea) ==
    LET max_width == (workarea.width * 3) \div 4
        max_height == (workarea.height * 3) \div 4
        scaling_factor_width == Frac(max_width, img.w)
        scaling_factor_height == Frac(max_height, img.h)
        scaling_factor ==
            IF FracLess(scaling_factor_width, scaling_factor_height)
            THEN scaling_factor_width ELSE scaling_factor_height
    IN IF FracLess(scaling_factor_height, Whole(1))
          \/ FracLess(scaling_factor_width, Whole(1))
       THEN [width |-> FracTrunc(FracMult(Whole(img.w), scaling_factor)),
             height |-> FracTrunc(FracMult(Whole(img.h), scaling_factor))]
       ELSE [width |-> img.w, height |-> img.h]

\* Lines 919-921: the loop that doubles the factor.
RECURSIVE scale2x_factor_from(_, _)
scale2x_factor_from(factor, effective_scale) ==
    IF FracLess(Whole(factor), effective_scale) /\ factor < MaxScale
    THEN scale2x_factor_from(factor * 2, effective_scale)
    ELSE factor

\* Lines 917-921 with the factor starting at 1.
scale2x_factor_from_one(effective_scale) ==
    scale2x_factor_from(1, effective_scale)

\* Lines 917-921: the factor starts at 2 and doubles while it is below the
\* effective scale and below 8.
scale2x_factor(effective_scale) == scale2x_factor_from(2, effective_scale)

\* draw_area_handler: base_scale_x and base_scale_y, the pan in pixels and
\* the zoom as fractions.
base_scale_x == Frac(alloc.width, original_image.w)
base_scale_y == Frac(alloc.height, original_image.h)
Zoom == Frac(zoom_level, ZoomOne)
PanPixels(pan) == FracTimes(pan, 1, Sub)
effective_scale == FracMult(base_scale_x, Zoom)

\* Lines 965-977: the rendering surface painted at the pan offset, scaled
\* by base_scale * zoom on each axis.
direct_blit ==
    [path |-> "direct",
     x |-> PanPixels(pan_x),
     y |-> PanPixels(pan_y),
     scale_x |-> FracMult(base_scale_x, Zoom),
     scale_y |-> FracMult(base_scale_y, Zoom)]

\* draw_area_handler.  Above zoom 1.5 the visible rectangle of the rendering
\* surface is handed to scale2x_viewport and the result is painted at
\* (draw_x, draw_y) scaled by final_scale on both axes; else the rendering
\* surface is painted at the pan offset scaled by (scale_x, scale_y).
draw_area_handler ==
    /\ drawn' =
         IF zoom_level > Scale2xZoom
         THEN LET scale2x_factor_ == scale2x_factor(effective_scale)
                  inv_scale == Frac(effective_scale.den, effective_scale.num)
                  vx == FracTrunc(FracMult(FracMinus(Whole(0),
                                                    PanPixels(pan_x)),
                                           inv_scale))
                  vy == FracTrunc(FracMult(FracMinus(Whole(0),
                                                    PanPixels(pan_y)),
                                           inv_scale))
                  vw == FracTrunc(FracMult(Whole(alloc.width), inv_scale)) + 2
                  vh == FracTrunc(FracMult(Whole(alloc.height), inv_scale))
                        + 2
                  viewport_x == IF vx < 0 THEN 0 ELSE vx
                  viewport_y == IF vy < 0 THEN 0 ELSE vy
                  viewport_w == IF viewport_x + vw > original_image.w
                                THEN original_image.w - viewport_x ELSE vw
                  viewport_h == IF viewport_y + vh > original_image.h
                                THEN original_image.h - viewport_y ELSE vh
                  final_scale == FracTimes(effective_scale, 1,
                                           scale2x_factor_)
              IN IF viewport_w > 0 /\ viewport_h > 0
                 THEN [path |-> "scale2x",
                       scale |-> scale2x_factor_,
                       viewport |-> [x |-> viewport_x, y |-> viewport_y,
                                     w |-> viewport_w, h |-> viewport_h],
                       x |-> FracPlus(PanPixels(pan_x),
                                      FracMult(Whole(viewport_x),
                                               FracMult(base_scale_x, Zoom))),
                       y |-> FracPlus(PanPixels(pan_y),
                                      FracMult(Whole(viewport_y),
                                               FracMult(base_scale_y, Zoom))),
                       scale_x |-> final_scale,
                       scale_y |-> final_scale]
                 ELSE [path |-> "background"]
         ELSE direct_blit
    /\ UNCHANGED <<editor, src_surface, caller_freed, scaled, factors,
                   requested, sampled, upscaled, external, alloc,
                   blurred>>

\* ---------------------------------------------------------- specification
\* The state application_init leaves, in one of the modes ms
\* (state->mode = state->config->paint_mode).
StartFrom(ms, img, st) ==
    /\ paints = <<>>
    /\ redo_paints = <<>>
    /\ temp_paint = NULL
    /\ original_image = img
    /\ rendering_surface = Painted(<<>>, NULL, img)
    /\ upscaled_pixbuf_cache = NULL
    /\ enhanced_surface = NULL
    /\ enhanced_preset_cache = 0 - 1
    /\ upscaled_preview_surface = NULL
    /\ upscaled_preview_scale_x = ScaleOne
    /\ upscaled_preview_scale_y = ScaleOne
    /\ upscaled_preview_cache_valid = FALSE
    /\ released = <<>>
    /\ mode \in ms
    /\ crop_settings = FreeAspect
    /\ settings = st
    /\ undo_sensitive = FALSE
    /\ redo_sensitive = FALSE
    /\ zoom_level = ZoomOne
    /\ pan_x = Whole(0)
    /\ pan_y = Whole(0)
    /\ middle_button_pressed = FALSE
    /\ pan_start_x = Whole(0)
    /\ pan_start_y = Whole(0)

\* Lines 1629-1631: the settings start at the configured values.
StartWith(ms, img) ==
    StartFrom(ms, img,
              [w |-> line_size, t |-> text_size, tr |-> transparency])

Start(ms) == StartWith(ms, LoadedImage)

\* Bounds of the exploration.
Room == Cardinality(LiveIds(paints, redo_paints, temp_paint)) < MaxLive
BrushRoom == IF temp_paint = NULL THEN TRUE
             ELSE Len(temp_paint.points) < MaxPoints

\* The annotation life cycle: a shape tool and the text tool, one drag
\* gesture (press at the origin, move to the pixel diagonally below), the
\* viewport at rest.
HistoryModes == {RECTANGLE, TEXT}

\* The upscaler at rest on the loaded image, while the editor is explored.
ScalerAtRest ==
    /\ src_surface = [w |-> ImgW, h |-> ImgH,
                      px |-> [i \in 1..(ImgW * ImgH) |-> 0]]
    /\ ScalerIdle

Init == Start(HistoryModes) /\ ScalerAtRest

Next ==
    \/ Room /\ \E p \in PressPositions, c \in BOOLEAN :
                   draw_area_button_press_handler(1, p, c)
       /\ UNCHANGED scaler
    \/ BrushRoom /\ \E p \in DragPositions :
                        draw_area_motion_notify_handler(p, FALSE)
       /\ UNCHANGED scaler
    \/ draw_area_button_release_handler(1)
       /\ UNCHANGED scaler
    \/ \E key \in TextKeys : window_keypress_handler_text(key)
       /\ UNCHANGED scaler
    \/ save_clicked_handler
       /\ UNCHANGED scaler
    \/ action_undo
       /\ UNCHANGED scaler
    \/ action_redo
       /\ UNCHANGED scaler
    \/ action_clear
       /\ UNCHANGED scaler
    \/ \E key \in Keys : window_keypress_handler(key)
       /\ UNCHANGED scaler
    \/ \E m \in HistoryModes : switch_mode_to(m)
       /\ UNCHANGED scaler

Spec == Init /\ [][Next]_vars

\* Cropping: strokes tapped at the origin with the freehand tool; crops
\* pressed at the origin or one pixel diagonally below and dragged to the
\* origin, half a pixel, one pixel along the top edge or one pixel
\* diagonally, corner- or centre-anchored; a viewport that zooms about a
\* point and resets.  The tool changes while nothing is pending, and a press
\* discards a paint still pending.
CropModes == {BRUSH, CROP}
CropPressPositions == {<<0, 0>>, <<2, 2>>}
CropDragPositions == {<<0, 0>>, <<1, 1>>, <<2, 0>>, <<2, 2>>}
ScrollPositions == {<<4, 4>>}
ZoomRoom == Abs(zoom_level - ZoomOne) < MaxZoomDrift
\* The pointer is dragged only while a crop is pending: strokes are taps.
CropDrag == IF temp_paint = NULL THEN FALSE ELSE temp_paint.type = CROP

InitCrop == Start(CropModes) /\ ScalerAtRest

NextCrop ==
    \/ Room /\ \E p \in (IF mode = CROP THEN CropPressPositions
                          ELSE PressPositions) :
                   draw_area_button_press_handler(1, p, FALSE)
       /\ UNCHANGED scaler
    \/ CropDrag /\ \E p \in CropDragPositions, ctrl \in BOOLEAN :
                        draw_area_motion_notify_handler(p, ctrl)
       /\ UNCHANGED scaler
    \/ draw_area_button_release_handler(1)
       /\ UNCHANGED scaler
    \/ action_undo
       /\ UNCHANGED scaler
    \/ action_redo
       /\ UNCHANGED scaler
    \/ crop_apply_clicked_handler
       /\ UNCHANGED scaler
    \/ temp_paint = NULL /\ \E m \in CropModes : switch_mode_to(m)
       /\ UNCHANGED scaler
    \/ ZoomRoom /\ \E d \in {"UP", "DOWN"}, p \in ScrollPositions :
                       draw_area_scroll_handler(d, p)
       /\ UNCHANGED scaler
    \/ window_keypress_handler_zoom_reset
       /\ UNCHANGED scaler

SpecCrop == InitCrop /\ [][NextCrop]_vars

\* The viewport: while nothing is pending and no button is held the wheel
\* zooms about a pointer position as far as the limits allow; at zoom 1.0 the
\* middle button drags the image by a pixel; the keys reset; the crop aspect
\* is free or 1:1; one crop of the loaded image is pressed at the window
\* origin or a pixel below it, dragged two pixels to the right or diagonally
\* under the current viewport, and applied.
ViewScrollPositions == {<<4, 4>>}
ViewPanPositions == {<<0, 0>>, <<2, 0>>}
ViewPressPositions == {<<0, 0>>, <<0, 2>>}
ViewDragPositions == {<<4, 4>>, <<4, 2>>}
ViewAspects == {0, 3}
PanRoom ==
    /\ Abs(pan_x.num) < MaxPan * pan_x.den
    /\ Abs(pan_y.num) < MaxPan * pan_y.den

InitView == Start({CROP}) /\ ScalerAtRest

NextView ==
    \/ temp_paint = NULL /\ ~middle_button_pressed
       /\ \E d \in {"UP", "DOWN"}, p \in ViewScrollPositions :
              draw_area_scroll_handler(d, p)
       /\ UNCHANGED scaler
    \/ \E key \in Keys : window_keypress_handler(key)
       /\ UNCHANGED scaler
    \/ ~middle_button_pressed /\ temp_paint = NULL /\ PanRoom
       /\ zoom_level = ZoomOne
       /\ \E p \in ViewPanPositions : draw_area_button_press_handler(2, p, FALSE)
       /\ UNCHANGED scaler
    \/ middle_button_pressed
       /\ \E p \in ViewPanPositions : draw_area_motion_notify_handler(p, FALSE)
       /\ UNCHANGED scaler
    \/ middle_button_pressed /\ draw_area_button_release_handler(2)
       /\ UNCHANGED scaler
    \/ ~middle_button_pressed /\ temp_paint = NULL
       /\ original_image = LoadedImage
       /\ \E p \in ViewPressPositions :
              draw_area_button_press_handler(1, p, FALSE)
       /\ UNCHANGED scaler
    \/ CropDrag /\ ~middle_button_pressed
       /\ \E p \in ViewDragPositions : draw_area_motion_notify_handler(p, FALSE)
       /\ UNCHANGED scaler
    \/ crop_apply_clicked_handler
       /\ UNCHANGED scaler
    \/ temp_paint = NULL /\ ~middle_button_pressed
       /\ \E active \in ViewAspects : crop_aspect_changed_handler(active)
       /\ UNCHANGED scaler

SpecView == InitView /\ [][NextView]_vars

\* Annotating under a zoomed viewport: rectangles and texts are
\* drawn, edited, committed, undone, redone and cleared, the tool sizes are
\* stepped with Shift+scroll and the tool is switched, while the wheel zooms
\* about a pointer position and the keys reset.
FrameModes == {RECTANGLE, TEXT}
FrameRoom ==
    Cardinality(LiveIds(paints, redo_paints, temp_paint)) < MaxFramePaints
SizeRoom ==
    /\ Abs(settings.w - line_size) < MaxSizeDrift
    /\ Abs(settings.t - text_size) < MaxSizeDrift

InitFrame == Start(FrameModes) /\ ScalerAtRest

NextFrame ==
    \/ FrameRoom /\ \E p \in PressPositions :
                        draw_area_button_press_handler(1, p, FALSE)
       /\ UNCHANGED scaler
    \/ BrushRoom /\ \E p \in DragPositions :
                        draw_area_motion_notify_handler(p, FALSE)
       /\ UNCHANGED scaler
    \/ draw_area_button_release_handler(1)
       /\ UNCHANGED scaler
    \/ \E key \in TextKeys : window_keypress_handler_text(key)
       /\ UNCHANGED scaler
    \/ save_clicked_handler
       /\ UNCHANGED scaler
    \/ action_undo
       /\ UNCHANGED scaler
    \/ action_redo
       /\ UNCHANGED scaler
    \/ action_clear
       /\ UNCHANGED scaler
    \/ SizeRoom /\ \E d \in {"UP", "DOWN"} : draw_area_scroll_handler_shift(d)
       /\ UNCHANGED scaler
    \/ \E m \in FrameModes : switch_mode_to(m)
       /\ UNCHANGED scaler
    \/ ZoomRoom /\ \E d \in {"UP", "DOWN"}, p \in ScrollPositions :
                       draw_area_scroll_handler(d, p)
       /\ UNCHANGED scaler
    \/ window_keypress_handler_zoom_reset
       /\ UNCHANGED scaler

SpecFrame == InitFrame /\ [][NextFrame]_vars

\* The external upscale command: one rectangle is drawn and undone while
\* previews of the rendering surface are requested, their commands end one
\* way or another, their results arrive and Ctrl+S exports the state.
UpscaleCommands == {"unset", "no_tokens", "both_tokens"}
TaskIds == 1..MaxTasks

InitUpscale ==
    /\ Start({RECTANGLE})
    /\ src_surface = [w |-> ImgW, h |-> ImgH,
                      px |-> [i \in 1..(ImgW * ImgH) |-> 0]]
    /\ Scale2xIdle
    /\ ExternalIdle
    /\ CanvasIdle
    /\ upscale_command \in UpscaleCommands

NextUpscale ==
    \/ LiveIds(paints, redo_paints, temp_paint) = {}
       /\ \E p \in PressPositions : draw_area_button_press_handler(1, p, FALSE)
       /\ UNCHANGED scaler
    \/ BrushRoom /\ \E p \in DragPositions :
                        draw_area_motion_notify_handler(p, FALSE)
       /\ UNCHANGED scaler
    \/ draw_area_button_release_handler(1)
       /\ UNCHANGED scaler
    \/ action_undo
       /\ UNCHANGED scaler
    \/ \E id \in TaskIds, in_ok \in BOOLEAN, out_ok \in BOOLEAN :
           upscale_request(id, in_ok, out_ok)
    \/ \E task \in upscale_tasks, outcome \in Outcomes :
           upscale_thread_func(task, outcome)
    \/ \E task \in upscale_tasks : upscale_ready_callback(task)
    \/ \E in_ok \in BOOLEAN, out_ok \in BOOLEAN, outcome \in Outcomes :
           pixbuf_get_from_state(in_ok, out_ok, outcome)

SpecUpscale == InitUpscale /\ [][NextUpscale]_vars

\* The preview caches: one rectangle is drawn and undone while an enhanced
\* preview and an upscaled preview are built and an upscale request whose
\* command succeeds delivers its result.
InitPreview ==
    /\ Start({RECTANGLE})
    /\ src_surface = [w |-> ImgW, h |-> ImgH,
                      px |-> [i \in 1..(ImgW * ImgH) |-> 0]]
    /\ Scale2xIdle
    /\ ExternalIdle
    /\ CanvasIdle
    /\ upscale_command = "both_tokens"

NextPreview ==
    \/ LiveIds(paints, redo_paints, temp_paint) = {}
       /\ \E p \in PressPositions : draw_area_button_press_handler(1, p, FALSE)
       /\ UNCHANGED scaler
    \/ BrushRoom /\ \E p \in DragPositions :
                        draw_area_motion_notify_handler(p, FALSE)
       /\ UNCHANGED scaler
    \/ draw_area_button_release_handler(1)
       /\ UNCHANGED scaler
    \/ action_undo
       /\ UNCHANGED scaler
    \/ enhanced_surface = NULL
       /\ \E preset \in EnhancePresets : enhanced_preview_built(preset)
    \/ ~upscaled_preview_cache_valid
       /\ \E built \in BOOLEAN : upscaled_preview_built(built)
    \/ \E id \in TaskIds : upscale_request(id, TRUE, TRUE)
    \/ \E task \in upscale_tasks : upscale_thread_func(task, "success")
    \/ \E task \in upscale_tasks : upscale_ready_callback(task)

SpecPreview == InitPreview /\ [][NextPreview]_vars

\* Painting the drawing area: a square image and a wide one, on monitors
\* that leave them at full size or scale them down to an area of at least
\* one pixel; the wheel zooms about a pointer position, the keys reset, and
\* the area is painted.
DrawImages == {LoadedImage, [x |-> 0, y |-> 0, w |-> ImgW + 1, h |-> ImgH]}
Workareas == {[width |-> 4 * ImgW, height |-> 4 * ImgW],
              [width |-> ImgW + 1, height |-> ImgW + 1],
              [width |-> ImgW, height |-> ImgW]}

InitDraw ==
    /\ \E img \in DrawImages : StartWith({PAN}, img)
    /\ src_surface = [w |-> ImgW, h |-> ImgH,
                      px |-> [i \in 1..(ImgW * ImgH) |-> 0]]
    /\ Scale2xIdle
    /\ ExternalIdle
    /\ upscale_command = "unset"
    /\ \E workarea \in Workareas :
           alloc = compute_window_size_and_scaling_factor(original_image,
                                                          workarea)
    /\ alloc.width > 0
    /\ alloc.height > 0
    /\ drawn = NULL
    /\ blurred = NULL

NextDraw ==
    \/ \E d \in {"UP", "DOWN"}, p \in ViewScrollPositions :
           draw_area_scroll_handler(d, p)
       /\ UNCHANGED scaler
    \/ window_keypress_handler_zoom_reset
       /\ UNCHANGED scaler
    \/ draw_area_handler

SpecDraw == InitDraw /\ [][NextDraw]_vars

\* The size buttons: the settings start anywhere in their ranges on one
\* axis, at the configured values on the other two, and every button is
\* pressed in any order.
SizeSettings ==
    {[w |-> w, t |-> text_size, tr |-> transparency] :
        w \in SWAPPY_LINE_SIZE_MIN..SWAPPY_LINE_SIZE_MAX}
    \cup {[w |-> line_size, t |-> t, tr |-> transparency] :
              t \in SWAPPY_TEXT_SIZE_MIN..SWAPPY_TEXT_SIZE_MAX}
    \cup {[w |-> line_size, t |-> text_size, tr |-> tr] :
              tr \in SWAPPY_TRANSPARENCY_MIN..SWAPPY_TRANSPARENCY_MAX}

InitSizes ==
    /\ \E st \in SizeSettings : StartFrom({BRUSH}, LoadedImage, st)
    /\ ScalerAtRest

NextSizes ==
    \/ stroke_size_decrease_handler /\ UNCHANGED scaler
    \/ stroke_size_increase_handler /\ UNCHANGED scaler
    \/ text_size_decrease_handler /\ UNCHANGED scaler
    \/ text_size_increase_handler /\ UNCHANGED scaler
    \/ transparency_decrease_handler /\ UNCHANGED scaler
    \/ transparency_increase_handler /\ UNCHANGED scaler

SpecSizes == InitSizes /\ [][NextSizes]_vars

\* Pixelation: surfaces of MaxBlurW - 1 or MaxBlurW by MaxBlurH pixels in a
\* supported or an unsupported format, at device scale 1/4, 1 or 2, whose
\* pixels change colour once along the rows; a region given in device
\* pixels and half pixels, inside the surface or across its edges.
BlurColours == {<<255, 255, 0, 0>>, <<255, 0, 255, 1>>, <<0, 0, 0, 0>>}
BlurFormats == {"ARGB32", "RGB24", "A8"}
BlurScales == {Frac(1, 4), Whole(1), Whole(2)}
StepPixels(n, k, a, b) == <<>> \o [i \in 1..n |-> IF i <= k THEN a ELSE b]
BlurSurfaces ==
    {[format |-> f, w |-> w, h |-> MaxBlurH, scale_x |-> sc, scale_y |-> sc,
      px |-> StepPixels(w * MaxBlurH, k, a, b)] :
        f \in BlurFormats, w \in {MaxBlurW - 1, MaxBlurW},
        sc \in BlurScales, k \in {1, MaxBlurW - 1, MaxBlurW + 1},
        a \in BlurColours, b \in BlurColours}
\* User-space lengths that are ds half device pixels at the device scale.
HalfPixels(ds, sc) == Frac(ds * sc.den, 2 * sc.num)
BlurOrigins == {0 - 2, 0, 1, 2}
BlurExtents == {0, 3, 2 * MaxBlurW - 2, 2 * MaxBlurW + 2}

InitBlurPixels ==
    /\ Start({BLUR})
    /\ src_surface \in BlurSurfaces
    /\ Scale2xIdle
    /\ ExternalIdle
    /\ CanvasIdle
    /\ upscale_command = "unset"

NextBlurPixels ==
    \E dx \in BlurOrigins, dy \in {0, 2}, dw \in BlurExtents,
       dh \in {2, 2 * MaxBlurH} :
        blur_surface_call(HalfPixels(dx, src_surface.scale_x),
                          HalfPixels(dy, src_surface.scale_y),
                          HalfPixels(dw, src_surface.scale_x),
                          HalfPixels(dh, src_surface.scale_y))

SpecBlurPixels == InitBlurPixels /\ [][NextBlurPixels]_vars

\* Blurring: blur regions and rectangles dragged over one pixel, released,
\* committed by a save, undone, redone and cleared.
BlurModes == {BLUR, RECTANGLE}

InitBlur == Start(BlurModes) /\ ScalerAtRest

NextBlur ==
    \/ Room /\ \E p \in PressPositions, c \in BOOLEAN :
                   draw_area_button_press_handler(1, p, c)
       /\ UNCHANGED scaler
    \/ BrushRoom /\ \E p \in DragPositions :
                        draw_area_motion_notify_handler(p, FALSE)
       /\ UNCHANGED scaler
    \/ draw_area_button_release_handler(1)
       /\ UNCHANGED scaler
    \/ save_clicked_handler
       /\ UNCHANGED scaler
    \/ action_undo
       /\ UNCHANGED scaler
    \/ action_redo
       /\ UNCHANGED scaler
    \/ action_clear
       /\ UNCHANGED scaler
    \/ \E m \in BlurModes : switch_mode_to(m)
       /\ UNCHANGED scaler

SpecBlur == InitBlur /\ [][NextBlur]_vars

\* The blur caches under commit, undo, redo, clear and crop: blur regions,
\* rectangles and crops dragged over one pixel; a release or a save
\* commits; a press discards a paint still pending.
CacheModes == {BLUR, RECTANGLE, CROP}

InitCache == Start(CacheModes) /\ ScalerAtRest

NextCache ==
    \/ Room /\ \E p \in PressPositions :
                   draw_area_button_press_handler(1, p, FALSE)
       /\ UNCHANGED scaler
    \/ BrushRoom /\ \E p \in DragPositions :
                        draw_area_motion_notify_handler(p, FALSE)
       /\ UNCHANGED scaler
    \/ draw_area_button_release_handler(1)
       /\ UNCHANGED scaler
    \/ save_clicked_handler
       /\ UNCHANGED scaler
    \/ action_undo
       /\ UNCHANGED scaler
    \/ action_redo
       /\ UNCHANGED scaler
    \/ action_clear
       /\ UNCHANGED scaler
    \/ crop_apply_clicked_handler
       /\ UNCHANGED scaler
    \/ \E m \in CacheModes : switch_mode_to(m)
       /\ UNCHANGED scaler

SpecCache == InitCache /\ [][NextCache]_vars

\* The pixel buffers of the given sizes over Colours.
Buffers(sizes) ==
    UNION {{[w |-> s[1], h |-> s[2], px |-> px] :
            px \in [1..(s[1] * s[2]) -> Colours]} : s \in sizes}

\* The buffers of up to 2 x 2 pixels, where every pixel lacks a neighbour
\* or two, and the 3 x 3 buffers whose centre P has its four neighbours A,
\* B, C, D of any colours, the left column being C and the right column B.
SmallSizes == (1..2) \X (1..2)
CrossBuffers ==
    {[w |-> 3, h |-> 3, px |-> <<C, A, B, C, P, B, C, D, B>>] :
     A \in Colours, B \in Colours, C \in Colours, D \in Colours,
     P \in Colours}

\* One 2x pass on each of these buffers.
InitScale2x ==
    /\ Start({BRUSH})
    /\ src_surface \in Buffers(SmallSizes) \cup CrossBuffers
    /\ ScalerIdle

NextScale2x == scale2x_call

SpecScale2x == InitScale2x /\ [][NextScale2x]_vars

\* Multi-pass upscaling: every buffer of up to 2 x 2 pixels scaled by 0, 1,
\* 2, 4 or 8, and the result of a 2x or 4x call scaled again up to 8x.

InitScale ==
    /\ Start({BRUSH})
    /\ src_surface \in Buffers(SmallSizes)
    /\ ScalerIdle

NextScale ==
    \/ \E scale \in ScaleFactors : scale_nx_call(scale)
    \/ \E scale \in {2, 4} : scale_nx_again(scale)

SpecScale == InitScale /\ [][NextScale]_vars

\* Viewport extraction: surfaces of up to MaxW x MaxH pixels, every pixel
\* of its own colour, and requests whose origin and extent go from below
\* zero to past the surface, INT_MAX included, at scale 1, 2, 4 or 8.
Surfaces ==
    {[w |-> w, h |-> h, px |-> [i \in 1..(w * h) |-> i]] :
     <<w, h>> \in (1..MaxW) \X (1..MaxH)}
ViewportOrigins == ((0 - MaxOff)..MaxOff) \cup {INT_MAX}
ViewportExtents == ((0 - 1)..MaxOff) \cup {INT_MAX}
ViewportScales == {1, 2, 4, 8}

InitViewport ==
    /\ Start({BRUSH})
    /\ src_surface \in Surfaces
    /\ ScalerIdle

NextViewport ==
    \E vx \in ViewportOrigins, vy \in ViewportOrigins,
       vw \in ViewportExtents, vh \in ViewportExtents,
       scale \in ViewportScales :
       scale2x_viewport(vx, vy, vw, vh, scale, "none")

SpecViewport == InitViewport /\ [][NextViewport]_vars

\* Allocation failure: the same surfaces, requests from just outside the
\* surface to past it, and any one of the allocations of the call failing.
AllocOrigins == (0 - 1)..MaxOff
AllocExtents == 0..MaxOff

NextAlloc ==
    \E vx \in AllocOrigins, vy \in AllocOrigins,
       vw \in AllocExtents, vh \in AllocExtents,
       scale \in ViewportScales, failed \in Allocations :
       scale2x_viewport(vx, vy, vw, vh, scale, failed)

SpecAlloc == InitViewport /\ [][NextAlloc]_vars

\* ------------------------------------------------------------- properties
\* C1: action_undo on a non-empty committed list removes exactly its head
\* and makes it the new head of the redo list, the rest of both lists
\* keeping its order; action_redo on a non-empty redo list does the
\* inverse; undo with nothing committed and redo with nothing undone change
\* neither list; the pending paint is untouched by both.
C1_UndoRedoSplice ==
    [][/\ action_undo =>
            /\ temp_paint' = temp_paint
            /\ IF paints # <<>>
               THEN /\ paints' = Tail(paints)
                    /\ redo_paints' = <<Head(paints)>> \o redo_paints
               ELSE paints' = paints /\ redo_paints' = redo_paints
       /\ action_redo =>
            /\ temp_paint' = temp_paint
            /\ IF redo_paints # <<>>
               THEN /\ paints' = <<Head(redo_paints)>> \o paints
                    /\ redo_paints' = Tail(redo_paints)
               ELSE paints' = paints /\ redo_paints' = redo_paints]_vars

\* Two undos in a row have moved two paints to the redo list, a third paint
\* staying committed.
C1_Witness == Len(redo_paints) >= 2 /\ Len(paints) >= 1

\* C2: a commit_state that moves the pending paint into the committed list
\* puts it at the head and leaves the redo list empty, and action_redo on
\* an empty redo list changes nothing; so commit(A), commit(B), undo,
\* commit(C), redo ends with committed = [C, A] and redo = [].
C2_CommitClearsRedo ==
    [][/\ (commit_state /\ temp_paint # NULL) =>
            ((temp_paint.can_draw
              /\ (temp_paint.type = TEXT => temp_paint.text > 0)) =>
                /\ redo_paints' = <<>>
                /\ Len(paints') = Len(paints) + 1
                /\ paints'[1].id = temp_paint.id
                /\ Tail(paints') = paints
                /\ temp_paint' = NULL)
       /\ (action_redo /\ redo_paints = <<>>) => UNCHANGED vars]_vars

\* The end of commit(A), commit(B), undo, commit(C): A is the first
\* allocation, B the second and C the third.
C2_Witness ==
    /\ Len(paints) = 2
    /\ paints[1].id = 3
    /\ paints[2].id = 1
    /\ redo_paints = <<>>
    /\ temp_paint = NULL

\* C3: in every reachable state with a committed paint, undo followed at
\* once by redo gives back the committed list and the redo list element for
\* element, the restored paint being the same object with the same content.
C3_UndoThenRedoIsIdentity ==
    paints # <<>> =>
        LET undone == undo_lists(paints, redo_paints)
            shown == render_paints(undone[1], original_image)
            redone == redo_lists(shown, undone[2])
        IN /\ undone[2] # <<>>
           /\ render_paints(redone[1], original_image) = paints
           /\ redone[2] = redo_paints

\* Two committed paints above a non-empty redo list.
C3_Witness == Len(paints) >= 2 /\ Len(redo_paints) >= 1

\* C4: the pending paint is in neither list, no paint is in both lists, and
\* no paint is twice in a list: each live paint is in exactly one of
\* pending, committed, redo.
C4_OnePlacePerPaint ==
    /\ temp_paint # NULL => temp_paint.id \notin Ids(paints) \cup Ids(redo_paints)
    /\ Ids(paints) \cap Ids(redo_paints) = {}
    /\ Cardinality(Ids(paints)) = Len(paints)
    /\ Cardinality(Ids(redo_paints)) = Len(redo_paints)

\* A pending paint next to a committed and an undone one.
C4_Witness ==
    /\ temp_paint # NULL
    /\ Len(paints) = 1
    /\ Len(redo_paints) = 1

\* C5: commit_state on a pending paint that cannot be drawn (can_draw false:
\* pressed and released without a move; or a text whose string is empty)
\* discards it: the committed list is unchanged and the pending slot empty.
C5_CommitDiscardsUndrawable ==
    [][(/\ commit_state
        /\ temp_paint # NULL
        /\ IF temp_paint.can_draw
           THEN temp_paint.type = TEXT /\ temp_paint.text = 0
           ELSE TRUE) =>
            /\ paints' = paints
            /\ temp_paint' = NULL]_vars

\* A text whose clip box was dragged but whose string is empty, pending
\* above a committed paint.
C5_Witness ==
    /\ temp_paint # NULL
    /\ temp_paint.type = TEXT
    /\ temp_paint.can_draw
    /\ temp_paint.text = 0
    /\ paints # <<>>

\* C6: after action_clear the committed list, the redo list and the pending
\* slot are all empty.
C6_ClearEmptiesAll ==
    [][action_clear =>
            /\ paints' = <<>>
            /\ redo_paints' = <<>>
            /\ temp_paint' = NULL]_vars

\* All three hold a paint when the clear action runs.
C6_Witness ==
    /\ paints # <<>>
    /\ redo_paints # <<>>
    /\ temp_paint # NULL
    /\ temp_paint.can_draw

\* The pending paint is a crop; its rectangle as action_apply_crop clamps
\* it, and whether that has positive area and at least one whole pixel in
\* each dimension.
PendingCrop == IF temp_paint = NULL THEN FALSE ELSE temp_paint.type = CROP
PendingCropRectangle == CropRectangle(temp_paint, original_image)
PositiveArea == PendingCropRectangle[3] > 0 /\ PendingCropRectangle[4] > 0
WholePixels ==
    ToInt(PendingCropRectangle[3]) >= 1 /\ ToInt(PendingCropRectangle[4]) >= 1

\* img holds a non-empty rectangle of pixels of old.
IsSubRectangle(img, old) ==
    /\ img # NULL
    /\ img.w >= 1 /\ img.h >= 1
    /\ img.x >= old.x /\ img.x + img.w <= old.x + old.w
    /\ img.y >= old.y /\ img.y + img.h <= old.y + old.h

\* The step emptied both lists and the pending slot, reset zoom to 1.0 and
\* pan to (0, 0), replaced the image by a sub-rectangle of it and rendered
\* the new image in full.
CropWentThrough ==
    /\ paints' = <<>>
    /\ redo_paints' = <<>>
    /\ temp_paint' = NULL
    /\ zoom_level' = ZoomOne
    /\ pan_x' = Whole(0)
    /\ pan_y' = Whole(0)
    /\ IsSubRectangle(original_image', original_image)
    /\ rendering_surface' = Painted(<<>>, NULL, original_image')

C8_EmptyCropChangesNothing ==
    [][(action_apply_crop /\ PendingCrop /\ ~PositiveArea) =>
            UNCHANGED <<original_image, paints, redo_paints, zoom_level,
                        pan_x, pan_y>>]_vars

\* A drawable crop of no height is pending in crop mode over a committed
\* and an undone paint, the view zoomed away from rest.
C8_Witness ==
    /\ mode = CROP
    /\ PendingCrop
    /\ temp_paint.can_draw
    /\ ~PositiveArea
    /\ paints # <<>>
    /\ redo_paints # <<>>
    /\ zoom_level # ZoomOne

SelectedRegion(shape, img) ==
    LET r == ResolvedRectangle(shape)
        left == IF r[1] < 0 THEN 0 ELSE r[1]
        top == IF r[2] < 0 THEN 0 ELSE r[2]
        right == Min(r[1] + r[3], img.w * Sub)
        bottom == Min(r[2] + r[4], img.h * Sub)
    IN [x |-> img.x + ToInt(left), y |-> img.y + ToInt(top),
        w |-> ToInt(right - left), h |-> ToInt(bottom - top)]

\* C10: a crop that goes through takes from the old image the resolved
\* rectangle (corner- or centre-anchored) intersected with the image and
\* truncated to whole pixels, so no pixel outside the selection.
C10_CropTakesTheSelection ==
    [][(/\ action_apply_crop
        /\ PendingCrop
        /\ temp_paint' = NULL
        /\ zoom_level' = ZoomOne
        /\ IF temp_paint.can_draw THEN WholePixels ELSE FALSE) =>
            original_image' = SelectedRegion(temp_paint, original_image)]_vars

\* C11: a crop exists only as the pending paint: no paint of type CROP is
\* in the committed list or in the redo list.
C11_NoCropInTheLists ==
    /\ \A i \in 1..Len(paints) : paints[i].type # CROP
    /\ \A i \in 1..Len(redo_paints) : redo_paints[i].type # CROP

\* C12: the rendering surface shows exactly the model: the image, the
\* committed paints that can be drawn, oldest first, and the pending paint
\* if it can be drawn; nothing discarded or removed is left on it.
C12_SurfaceShowsTheModel ==
    rendering_surface = Painted(paints, temp_paint, original_image)

\* C13: the pixelation of a blur is not computed while the blur is pending
\* (no surface, no blur_surface call), is computed by the render that
\* follows its commit and kept on the paint, and is never computed a second
\* time: every committed blur, still in the list or undone, has its surface
\* and has had exactly one blur_surface call.
C13_BlurComputedOnce ==
    /\ temp_paint # NULL =>
          temp_paint.surface = NULL /\ temp_paint.blur_runs = 0
    /\ \A i \in 1..Len(paints) :
          paints[i].type = BLUR =>
              paints[i].surface # NULL /\ paints[i].blur_runs = 1
    /\ \A i \in 1..Len(redo_paints) :
          redo_paints[i].type = BLUR =>
              redo_paints[i].surface # NULL /\ redo_paints[i].blur_runs = 1

\* A blur was committed under a newer paint and another blur was undone:
\* later renders have passed over the first, and the second left the list
\* with its surface.
C13_Witness ==
    /\ Len(paints) >= 2
    /\ paints[Len(paints)].type = BLUR
    /\ paints[Len(paints)].blur_runs = 1
    /\ redo_paints # <<>>
    /\ redo_paints[1].type = BLUR
    /\ redo_paints[1].surface # NULL

\* ------------------------------------------------- properties: upscaler
\* The pixel of the caller's buffer at column x, row y; a neighbour taken
\* at (x, y), which is P when (x, y) is outside the buffer; the pixel of
\* the returned buffer at column col, row row.
SourcePixel(x, y) == src_surface.px[y * src_surface.w + x + 1]
NeighbourOr(x, y, P) ==
    IF x >= 0 /\ x < src_surface.w /\ y >= 0 /\ y < src_surface.h
    THEN SourcePixel(x, y)
    ELSE P
ScaledPixel(col, row) == scaled.px[row * scaled.w + col + 1]
\* What one scale_nx call on the caller's buffer returns.
Upscaled(k) ==
    LET r == scale_nx(src_surface.px, src_surface.w, src_surface.h, k)
    IN [w |-> r.out_w, h |-> r.out_h, px |-> r.buf]
Uniform(buf) == \A i \in DOMAIN buf.px : buf.px[i] = buf.px[1]

\* C14: scale_nx on a W x H buffer with scale k in {1, 2, 4, 8} reports
\* out_w = W*k and out_h = H*k and returns a buffer of out_w * out_h pixels;
\* with a scale below 2 it reports W and H and returns a copy of the source.
C14_ScaleNxSize ==
    (scaled # NULL /\ Len(factors) = 1) =>
        LET k == IF factors[1] < 2 THEN 1 ELSE factors[1]
        IN /\ scaled.w = src_surface.w * k
           /\ scaled.h = src_surface.h * k
           /\ DOMAIN scaled.px = 1..(src_surface.w * k * src_surface.h * k)
           /\ factors[1] < 2 => scaled.px = src_surface.px

\* A 2 x 2 buffer of more than one colour was scaled by 8 to 16 x 16, and
\* in another run copied with scale 1.
C14_Witness ==
    /\ scaled # NULL
    /\ factors = <<8>>
    /\ src_surface.w = 2
    /\ src_surface.h = 2
    /\ ~Uniform(src_surface)
    /\ scaled.w = 16
    /\ ~Uniform(scaled)

\* C15: two scale_nx calls with scale 2, the second on the result of the
\* first, return the buffer one call with scale 4 returns; three such
\* calls, or a 2 and a 4 in either order, return the buffer of scale 8; and
\* no call frees the buffer its caller passed.
C15_PassesCompose ==
    /\ ~caller_freed
    /\ (scaled # NULL /\ factors = <<2, 2>>) => scaled = Upscaled(4)
    /\ (scaled # NULL /\ factors \in {<<2, 2, 2>>, <<2, 4>>, <<4, 2>>}) =>
           scaled = Upscaled(8)

\* Three 2x calls in a row on a 2 x 2 buffer where the rules replace pixels.
C15_Witness ==
    /\ factors = <<2, 2, 2>>
    /\ src_surface.w = 2
    /\ src_surface.h = 2
    /\ \E col \in 0..15, row \in 0..15 :
           ScaledPixel(col, row) # SourcePixel(col \div 8, row \div 8)

\* C16: for the source pixel P at (x, y) with neighbours A above, B to the
\* right, C to the left and D below, each P when outside the buffer, scale2x
\* writes at (2x, 2y) the block: top-left A if C = A, C # D, A # B, else P;
\* top-right B if A = B, A # C, B # D, else P; bottom-left C if D = C,
\* D # B, C # A, else P; bottom-right D if B = D, B # A, D # C, else P.
C16_EpxRule ==
    scaled # NULL =>
        \A x \in 0..(src_surface.w - 1), y \in 0..(src_surface.h - 1) :
            LET P == SourcePixel(x, y)
                A == NeighbourOr(x, y - 1, P)
                B == NeighbourOr(x + 1, y, P)
                C == NeighbourOr(x - 1, y, P)
                D == NeighbourOr(x, y + 1, P)
            IN /\ ScaledPixel(2 * x, 2 * y) =
                     (IF C = A /\ C # D /\ A # B THEN A ELSE P)
               /\ ScaledPixel(2 * x + 1, 2 * y) =
                     (IF A = B /\ A # C /\ B # D THEN B ELSE P)
               /\ ScaledPixel(2 * x, 2 * y + 1) =
                     (IF D = C /\ D # B /\ C # A THEN C ELSE P)
               /\ ScaledPixel(2 * x + 1, 2 * y + 1) =
                     (IF B = D /\ B # A /\ D # C THEN D ELSE P)

\* A 3 x 3 buffer whose centre differs from its four neighbours, which have
\* three colours, A and C the same: the top-left rule gave A and the
\* bottom-right rule kept P.
C16_Witness ==
    /\ scaled # NULL
    /\ src_surface.w = 3
    /\ src_surface.h = 3
    /\ SourcePixel(1, 0) = SourcePixel(0, 1)
    /\ SourcePixel(1, 0) # SourcePixel(1, 1)
    /\ SourcePixel(2, 1) # SourcePixel(1, 2)
    /\ SourcePixel(2, 1) # SourcePixel(1, 0)
    /\ SourcePixel(1, 2) # SourcePixel(1, 0)
    /\ SourcePixel(1, 1) # SourcePixel(2, 1)
    /\ SourcePixel(1, 1) # SourcePixel(1, 2)
    /\ ScaledPixel(2, 2) = SourcePixel(1, 0)
    /\ ScaledPixel(3, 3) = SourcePixel(1, 1)

\* C17: a buffer whose pixels all have one value c, scaled by scale_nx with
\* any factor, gives a buffer whose pixels all have the value c.
C17_UniformStaysUniform ==
    (scaled # NULL /\ Uniform(src_surface)) =>
        \A i \in DOMAIN scaled.px : scaled.px[i] = src_surface.px[1]

\* A 2 x 2 buffer of one colour that is not black was scaled by 8.
C17_Witness ==
    /\ scaled # NULL
    /\ factors = <<8>>
    /\ src_surface.w = 2
    /\ src_surface.h = 2
    /\ Uniform(src_surface)
    /\ src_surface.px[1] # 0
    /\ scaled.w = 16

\* The caller's buffer has colour L in the columns before c and R from
\* column c on.
VerticalEdge(c, L, R) ==
    \A x \in 0..(src_surface.w - 1), y \in 0..(src_surface.h - 1) :
        SourcePixel(x, y) = (IF x < c THEN L ELSE R)

\* C18: a buffer with a vertical edge at column c between two colours L and
\* R, scaled 2x, has L in every column before 2c and R in every column from
\* 2c on.
C18_EdgeStaysSharp ==
    scaled # NULL =>
        \A c \in 0..src_surface.w, L \in Colours, R \in Colours :
            (L # R /\ VerticalEdge(c, L, R)) =>
                \A col \in 0..(scaled.w - 1), row \in 0..(scaled.h - 1) :
                    ScaledPixel(col, row) = (IF col < 2 * c THEN L ELSE R)

\* A 3 x 3 buffer with an edge between its first and second column was
\* scaled to 6 x 6.
C18_Witness ==
    /\ scaled # NULL
    /\ src_surface.w = 3
    /\ src_surface.h = 3
    /\ \E L \in Colours, R \in Colours : L # R /\ VerticalEdge(1, L, R)
    /\ ScaledPixel(1, 0) # ScaledPixel(2, 0)

\* The requested region has pixels and none of them is on the surface: it
\* ends at or before column 0 or row 0, or starts at or after the last.
RequestedOutside ==
    /\ requested # NULL
    /\ requested.w > 0
    /\ requested.h > 0
    /\ \/ requested.x < 0 /\ requested.w <= 0 - requested.x
       \/ requested.y < 0 /\ requested.h <= 0 - requested.y
       \/ requested.x >= src_surface.w
       \/ requested.y >= src_surface.h

\* C19: scale2x_viewport returns NULL for a region that lies entirely
\* outside the source surface.
C19_OutsideReturnsNull ==
    RequestedOutside => upscaled = NULL

\* C20: scale2x_viewport returns NULL, or the rectangle of source pixels it
\* read is contained in the surface: columns 0 .. src_w - 1, rows
\* 0 .. src_h - 1.
C20_ReadsInsideTheSource ==
    sampled # NULL =>
        /\ sampled.x >= 0
        /\ sampled.y >= 0
        /\ sampled.w <= src_surface.w - sampled.x
        /\ sampled.h <= src_surface.h - sampled.y

\* The requested region has pixels, all of them on the surface.
RequestedInside ==
    /\ requested # NULL
    /\ requested.x >= 0
    /\ requested.y >= 0
    /\ requested.w > 0
    /\ requested.h > 0
    /\ requested.w <= src_surface.w - requested.x
    /\ requested.h <= src_surface.h - requested.y

\* C21: for a region inside the source surface and a scale of 2, 4 or 8,
\* scale2x_viewport returns a surface w*scale pixels wide and h*scale high
\* whose pixels are scale_nx of the pixels of that region, row by row.
C21_ViewportIsUpscaledRegion ==
    (RequestedInside /\ requested.scale \in {2, 4, 8}) =>
        LET w == requested.w
            h == requested.h
            region == [i \in 1..(w * h) |->
                          SourcePixel(requested.x + ((i - 1) % w),
                                      requested.y + ((i - 1) \div w))]
        IN /\ upscaled \notin {NULL, Undefined}
           /\ upscaled.w = w * requested.scale
           /\ upscaled.h = h * requested.scale
           /\ upscaled.px = scale_nx(region, w, h, requested.scale).buf

\* The right column of a 2 x 2 surface was extracted and scaled by 8.
C21_Witness ==
    /\ requested # NULL
    /\ src_surface.w = 2
    /\ src_surface.h = 2
    /\ requested = [x |-> 1, y |-> 0, w |-> 1, h |-> 2, scale |-> 8,
                    failed |-> "none"]
    /\ upscaled \notin {NULL, Undefined}
    /\ upscaled.w = 8
    /\ upscaled.h = 16
    /\ upscaled.px[1] = SourcePixel(1, 0)

\* C22: in every reachable state the zoom level lies between 0.1 and 10.0,
\* whatever sequence of wheel steps up and down, reset keys and crops led
\* there from the initial level 1.0.
C22_ZoomWithinLimits == ZoomMin <= zoom_level /\ zoom_level <= ZoomMax

\* The wheel has turned up from 1.0 until a step was cut off at 10.0, the
\* pan having moved with it.
C22_Witness ==
    /\ zoom_level = ZoomMax
    /\ zoom_step_unclamped("UP", zoom_level) > ZoomMax
    /\ pan_x # Whole(0)

\* C23: a zoom step of the wheel at pointer position m sets each pan offset
\* to m - (m - pan) * (new zoom / old zoom), so that m maps to the same image
\* point before and after the step, before and after the clamp to the image,
\* also when the step was cut off at 0.1 or 10.0.
C23_ZoomKeepsCursorPoint ==
    [][\A p \in ViewScrollPositions :
          (\E d \in {"UP", "DOWN"} : draw_area_scroll_handler(d, p)) =>
              /\ zoom_level' # zoom_level =>
                     /\ pan_x' = FracMinus(Whole(p[1]),
                                    FracTimes(FracMinus(Whole(p[1]), pan_x),
                                              zoom_level', zoom_level))
                     /\ pan_y' = FracMinus(Whole(p[2]),
                                    FracTimes(FracMinus(Whole(p[2]), pan_y),
                                              zoom_level', zoom_level))
              /\ adjusted(p[1], pan_x', zoom_level')
                     = adjusted(p[1], pan_x, zoom_level)
              /\ adjusted(p[2], pan_y', zoom_level')
                     = adjusted(p[2], pan_y, zoom_level)
              /\ <<Clamp(FracFloor(adjusted(p[1], pan_x', zoom_level')),
                          0, original_image'.w * Sub),
                    Clamp(FracFloor(adjusted(p[2], pan_y', zoom_level')),
                          0, original_image'.h * Sub)>>
                     = screen_coordinates_to_image_coordinates(p)]_vars

\* The wheel has turned up at m from a view dragged away from rest until a
\* step was cut off at 10.0: the image point that was under m at zoom 1.0 is
\* still under it.
C23_Witness ==
    \E p \in ViewScrollPositions, from \in ViewPanPositions,
       to \in ViewPanPositions :
        /\ from # to
        /\ zoom_level = ZoomMax
        /\ zoom_step_unclamped("UP", zoom_level) > ZoomMax
        /\ pan_x # Whole(to[1] - from[1])
        /\ adjusted(p[1], pan_x, zoom_level)
               = adjusted(p[1], Whole(to[1] - from[1]), ZoomOne)
        /\ adjusted(p[2], pan_y, zoom_level)
               = adjusted(p[2], Whole(to[2] - from[2]), ZoomOne)

InsideImage(pt) ==
    /\ 0 <= pt[1] /\ pt[1] <= original_image.w * Sub
    /\ 0 <= pt[2] /\ pt[2] <= original_image.h * Sub

AnchorsInside(paint) ==
    IF paint.type = BRUSH
    THEN \A i \in 1..Len(paint.points) : InsideImage(paint.points[i])
    ELSE InsideImage(paint.from) /\ InsideImage(paint.to)

\* C24: the screen-to-image mapping is clamped per axis to the image, hence
\* the from and to anchors and the freehand points of every paint made from
\* pointer input, pending, committed or undone, lie inside the image
\* rectangle: 0 <= x <= image width and 0 <= y <= image height.
C24_AnchorsInsideImage ==
    /\ \A p \in ViewPressPositions \cup ViewDragPositions :
           InsideImage(screen_coordinates_to_image_coordinates(p))
    /\ \A i \in 1..Len(paints) : AnchorsInside(paints[i])
    /\ \A i \in 1..Len(redo_paints) : AnchorsInside(redo_paints[i])
    /\ temp_paint # NULL => AnchorsInside(temp_paint)

\* C25: the result of an asynchronous upscale request is not used once the
\* image or the paints changed after the request: the pixbuf in the cache
\* slot was made from the rendering surface as it is now, and the pixbuf a
\* save exports was made from the rendering surface as it was at the save.
C25_NoStaleUpscale ==
    /\ upscaled_pixbuf_cache # NULL =>
           upscaled_pixbuf_cache.of = rendering_surface
    /\ saved_pixbuf # NULL => saved_pixbuf.pixbuf.of = saved_pixbuf.surface

\* C26: every temporary file of an upscale invocation is unlinked when the
\* invocation is over, however it ended: a temporary file that exists
\* belongs to a request whose task is not yet finished.
C26_NoTempFileLeft ==
    \A f \in temp_files : \E task \in upscale_tasks : task.id = f.by

\* C27: when an allocation fails inside the upscaler or the viewport
\* extractor the call gives a null result and leaves the source as it was,
\* without writing through the failed allocation.
C27_FailedAllocationAborts ==
    (requested # NULL /\ sampled # NULL) =>
        (requested.failed # "none" =>
            /\ upscaled = NULL
            /\ caller_freed = FALSE)

OutsideTextEditing == ~(temp_paint # NULL /\ mode = TEXT)
ViewportAtRest ==
    zoom_level = ZoomOne /\ pan_x = Whole(0) /\ pan_y = Whole(0)

\* C28: outside text editing a press of Space, 0 or 1 leaves zoom at 1.0
\* and pan at (0, 0), whatever they were: no such key press ends elsewhere.
C28_ResetKeys ==
    OutsideTextEditing =>
        \A key \in {"space", "0", "1"} :
            ~ENABLED (window_keypress_handler(key) /\ ~ViewportAtRest')

\* C29: outside text editing a press of x or k leaves the committed list,
\* the redo list and the pending slot empty: no such key press ends
\* elsewhere.
C29_ClearKeys ==
    OutsideTextEditing =>
        \A key \in {"x", "k"} :
            ~ENABLED (/\ window_keypress_handler(key)
                      /\ ~(/\ paints' = <<>>
                           /\ redo_paints' = <<>>
                           /\ temp_paint' = NULL))

\* C30: undo, redo, commit, clear, a button-1 press, a pointer move and a
\* button-1 release in a drawing mode, a key on a pending text, a
\* Shift+scroll step of a tool size and a mode switch leave zoom_level,
\* pan_x and pan_y as they were.
C30_ViewportFrame ==
    [][(\/ action_undo
        \/ action_redo
        \/ save_clicked_handler
        \/ action_clear
        \/ \E p \in PressPositions :
               draw_area_button_press_handler(1, p, FALSE)
        \/ ~middle_button_pressed
           /\ \E p \in DragPositions :
                  draw_area_motion_notify_handler(p, FALSE)
        \/ draw_area_button_release_handler(1)
        \/ \E key \in TextKeys : window_keypress_handler_text(key)
        \/ \E d \in {"UP", "DOWN"} : draw_area_scroll_handler_shift(d)
        \/ \E m \in FrameModes : switch_mode_to(m))
       => UNCHANGED viewport]_vars

\* A paint was committed and a tool size stepped while the view is zoomed
\* and panned.
C30_Witness ==
    /\ zoom_level # ZoomOne
    /\ pan_x # Whole(0)
    /\ paints # <<>>
    /\ settings.w # line_size

\* The position of the paint with identity id in the committed list ps, 0
\* when it is not there.
PositionIn(ps, id) ==
    IF \E k \in 1..Len(ps) : ps[k].id = id
    THEN CHOOSE k \in 1..Len(ps) : ps[k].id = id
    ELSE 0

\* The surface shows img below layers that are the drawable paints of ps,
\* each once, an older one below a newer one, and then tp if it can be
\* drawn; nothing else, and nothing above tp.
RenderedInOrder(surface, ps, tp, img) ==
    LET layers == surface.layers
        n == Len(layers)
        pending == tp # NULL /\ tp.can_draw
        c == IF pending THEN n - 1 ELSE n
    IN /\ surface.img = img
       /\ pending => n > 0 /\ layers[n].id = tp.id
       /\ \A i \in 1..c :
              /\ PositionIn(ps, layers[i].id) > 0
              /\ layers[i].can_draw
       /\ \A i \in 1..c, j \in 1..c :
              i < j => PositionIn(ps, layers[i].id)
                           > PositionIn(ps, layers[j].id)
       /\ \A k \in 1..Len(ps) :
              ps[k].can_draw <=> \E i \in 1..c : layers[i].id = ps[k].id

\* C31: every render leaves the surface with the image at the bottom, the
\* committed paints that can be drawn above it from the oldest to the
\* newest, and the pending paint, if it can be drawn, on top; a paint that
\* cannot be drawn is not on the surface.
C31_RenderOrder ==
    [][rendering_surface' # rendering_surface =>
           RenderedInOrder(rendering_surface', paints', temp_paint',
                           original_image')]_vars

\* Two committed paints are on the surface below a pending one.
C31_Witness ==
    /\ Len(paints) >= 2
    /\ temp_paint # NULL
    /\ Len(rendering_surface.layers) = Len(paints) + 1
    /\ rendering_surface.layers[Len(paints) + 1].id = temp_paint.id

\* Every preview cache of the state is invalid.
CachesInvalid ==
    /\ enhanced_surface = NULL
    /\ enhanced_preset_cache = 0 - 1
    /\ upscaled_preview_surface = NULL
    /\ upscaled_pixbuf_cache = NULL
    /\ upscaled_preview_cache_valid = FALSE
    /\ upscaled_preview_scale_x = ScaleOne
    /\ upscaled_preview_scale_y = ScaleOne

\* C32: a handler that calls render_state (a button-1 press, a pointer
\* move, a release that commits, undo) leaves every preview cache invalid,
\* and has released each cached object that was there once and nothing
\* else.
C32_RenderInvalidatesCaches ==
    [][(\/ \E p \in PressPositions :
               draw_area_button_press_handler(1, p, FALSE)
        \/ \E p \in DragPositions : draw_area_motion_notify_handler(p, FALSE)
        \/ draw_area_button_release_handler(1)
        \/ action_undo)
       => /\ enhanced_surface' = NULL
          /\ enhanced_preset_cache' = 0 - 1
          /\ upscaled_preview_surface' = NULL
          /\ upscaled_pixbuf_cache' = NULL
          /\ upscaled_preview_cache_valid' = FALSE
          /\ upscaled_preview_scale_x' = ScaleOne
          /\ upscaled_preview_scale_y' = ScaleOne
          /\ \A i \in 1..Len(released'), j \in 1..Len(released') :
                 released'[i] = released'[j] => i = j
          /\ ("enhanced_surface" \in Range(released'))
                 <=> enhanced_surface # NULL
          /\ ("upscaled_preview_surface" \in Range(released'))
                 <=> upscaled_preview_surface # NULL
          /\ ("upscaled_pixbuf_cache" \in Range(released'))
                 <=> upscaled_pixbuf_cache # NULL]_vars

\* A render has just released all three cached objects.
C32_Witness ==
    /\ Len(released) = 3
    /\ CachesInvalid

\* The powers of two a scale factor can be, and the smallest of them that
\* is not below scale.
PowersOfTwo == {1, 2, 4, 8, 16}
NextPowerOfTwo(scale, powers) ==
    CHOOSE q \in powers :
        /\ ~FracLess(Whole(q), scale)
        /\ \A r \in powers : ~FracLess(Whole(r), scale) => q <= r

\* C33: the factor handed to scale2x_viewport is the smallest power of two
\* that is not below base_scale * zoom, or 8 when that power exceeds 8.
C33_FactorIsNextPowerOfTwo ==
    [][draw_area_handler /\ drawn'.path = "scale2x" =>
           drawn'.scale = Min(MaxScale,
                              NextPowerOfTwo(effective_scale, PowersOfTwo))]_vars

\* C33 amended: the factor is the smallest of 2, 4 and 8 that is not below
\* base_scale * zoom, or 8 when the effective scale exceeds 8; it is never
\* below 2.
C33_FactorIsNextPowerFromTwo ==
    [][draw_area_handler /\ drawn'.path = "scale2x" =>
           drawn'.scale = Min(MaxScale,
                              NextPowerOfTwo(effective_scale,
                                             PowersOfTwo \ {1}))]_vars

\* The area was painted through scale2x_viewport at factor 2 with an
\* effective scale of at most 1.
C33_Witness ==
    /\ drawn # NULL
    /\ drawn.path = "scale2x"
    /\ drawn.scale = 2
    /\ ~FracLess(Whole(1), FracMult(drawn.scale_x, Whole(drawn.scale)))

\* Where a painted surface puts image pixel (i, j), and how large: the
\* surface starts at image pixel (origin_x, origin_y) and holds block by
\* block surface pixels for each image pixel.
Placement(painted, origin_x, origin_y, block, i, j) ==
    [x |-> FracPlus(painted.x,
                    FracMult(Whole((i - origin_x) * block), painted.scale_x)),
     y |-> FracPlus(painted.y,
                    FracMult(Whole((j - origin_y) * block), painted.scale_y)),
     w |-> FracMult(Whole(block), painted.scale_x),
     h |-> FracMult(Whole(block), painted.scale_y)]

\* C34: when the area is painted through scale2x_viewport, every image
\* pixel of the extracted viewport is put where the direct blit of the
\* rendering surface would put it for the same pan, zoom and area, and is
\* as wide and as high.
C34_PathsAgree ==
    [][draw_area_handler /\ drawn'.path = "scale2x" =>
           \A i \in drawn'.viewport.x
                     ..(drawn'.viewport.x + drawn'.viewport.w - 1),
              j \in drawn'.viewport.y
                     ..(drawn'.viewport.y + drawn'.viewport.h - 1) :
               Placement(drawn', drawn'.viewport.x, drawn'.viewport.y,
                         drawn'.scale, i, j)
                   = Placement(direct_blit, 0, 0, 1, i, j)]_vars
\* C35. For an ARGB32 or RGB24 surface blur_surface splits the region, in
\* device pixels and clamped to the surface, into squares of side
\* max(4, floor(12 * device scale)) counted from the region's corner, the
\* last ones cut at the region's edge; every pixel of a square gets, channel
\* by channel, the integer average of the source pixels of that square, and
\* every pixel outside the region keeps its value.  For any other format the
\* result is NULL.
RECURSIVE SumOfChannel(_, _, _)
SumOfChannel(surface, ch, cells) ==
    IF cells = {} THEN 0
    ELSE LET cell == CHOOSE c \in cells : TRUE
         IN PixelAt(surface, cell[1], cell[2])[ch]
                + SumOfChannel(surface, ch, cells \ {cell})
BlockSide(surface) ==
    Max(4, FracFloor(FracMult(Whole(12), surface.scale_x)))
RegionCells(surface, call) ==
    LET left == FracTrunc(FracMult(call.x, surface.scale_x))
        top == FracTrunc(FracMult(call.y, surface.scale_y))
        right == FracTrunc(FracMult(FracPlus(call.x, call.width),
                                    surface.scale_x))
        bottom == FracTrunc(FracMult(FracPlus(call.y, call.height),
                                     surface.scale_y))
    IN {cell \in (0..(surface.w - 1)) \X (0..(surface.h - 1)) :
            /\ left <= cell[1] /\ cell[1] < right
            /\ top <= cell[2] /\ cell[2] < bottom}
RegionCorner(cells) ==
    CHOOSE corner \in cells :
        \A cell \in cells : corner[1] <= cell[1] /\ corner[2] <= cell[2]
SameBlock(cells, side, a, b) ==
    LET corner == RegionCorner(cells)
    IN /\ (a[1] - corner[1]) \div side = (b[1] - corner[1]) \div side
       /\ (a[2] - corner[2]) \div side = (b[2] - corner[2]) \div side
C35_Pixelation ==
    blurred # NULL =>
        IF src_surface.format \notin {"ARGB32", "RGB24"}
        THEN blurred.result = NULL
        ELSE /\ blurred.result # NULL
             /\ LET cells == RegionCells(src_surface, blurred)
                    side == BlockSide(src_surface)
                IN \A cell \in (0..(src_surface.w - 1))
                                \X (0..(src_surface.h - 1)) :
                       LET block == {other \in cells :
                                        SameBlock(cells, side, cell, other)}
                       IN PixelAt(blurred.result.dest, cell[1], cell[2]) =
                              IF cell \in cells
                              THEN [ch \in 1..4 |->
                                       SumOfChannel(src_surface, ch, block)
                                           \div Cardinality(block)]
                              ELSE PixelAt(src_surface, cell[1], cell[2])
\* A region of two blocks in a row, the second one cut short, that starts
\* inside the surface and whose pixelation changes a pixel.
C35_Witness ==
    /\ blurred # NULL
    /\ blurred.result # NULL
    /\ LET cells == RegionCells(src_surface, blurred)
           columns == {cell[1] : cell \in cells}
           side == BlockSide(src_surface)
       IN /\ cells # {}
          /\ 0 \notin columns
          /\ Cardinality(columns) > side
          /\ Cardinality(columns) % side # 0
          /\ blurred.result.dest.px # src_surface.px
\* C36. A commit request that adds nothing to the committed list, because
\* nothing is pending or because the pending paint is discarded, leaves the
\* redo list as it was.
C36_RedoKeptWithoutNewWork ==
    [][commit_state /\ Ids(paints') = Ids(paints)
           => redo_paints' = redo_paints]_vars
\* C37. In every state between two handlers the undo button is sensitive
\* exactly when the committed list holds a paint, and the redo button
\* exactly when the redo list holds a paint.
C37_ControlsFollowLists ==
    /\ undo_sensitive = (paints # <<>>)
    /\ redo_sensitive = (redo_paints # <<>>)
\* C40. Under the increase and decrease buttons the stroke width stays in
\* 1..50, the text size in 10..50 and the transparency in 5..95.
C40_SizesInRange ==
    /\ 1 <= settings.w /\ settings.w <= 50
    /\ 10 <= settings.t /\ settings.t <= 50
    /\ 5 <= settings.tr /\ settings.tr <= 95
\* The three settings stand at limits that only steps lead to together.
C40_Witness ==
    /\ settings.w = 50
    /\ settings.t = 10
    /\ settings.tr = 5
MirrorH(px, w, h) ==
    <<>> \o [i \in 1..(w * h) |->
               px[((i - 1) \div w) * w + (w - 1 - ((i - 1) % w)) + 1]]
MirrorV(px, w, h) ==
    <<>> \o [i \in 1..(w * h) |->
               px[(h - 1 - ((i - 1) \div w)) * w + ((i - 1) % w) + 1]]
C39_MirrorSymmetry ==
    scaled # NULL /\ factors = <<2>> =>
        LET w == src_surface.w
            h == src_surface.h
        IN /\ scale2x(MirrorH(src_surface.px, w, h), w, h)
                  = MirrorH(scaled.px, 2 * w, 2 * h)
           /\ scale2x(MirrorV(src_surface.px, w, h), w, h)
                  = MirrorV(scaled.px, 2 * w, 2 * h)
\* A buffer that is its own mirror image in neither direction was upscaled,
\* and a rule replaced a pixel by a neighbour.
C39_Witness ==
    /\ scaled # NULL
    /\ factors = <<2>>
    /\ MirrorH(src_surface.px, src_surface.w, src_surface.h)
           # src_surface.px
    /\ MirrorV(src_surface.px, src_surface.w, src_surface.h)
           # src_surface.px
    /\ \E i \in 1..Len(scaled.px) :
           scaled.px[i]
               # src_surface.px[(((i - 1) \div scaled.w) \div 2)
                                    * src_surface.w
                                + (((i - 1) % scaled.w) \div 2) + 1]
====
